---- MODULE Spec2Model ----
(***************************************************************************)
(* Turn-based conversation state engine of actAgents.                      *)
(*                                                                         *)
(*   Spec         ChatStateManagerService: the in-memory turn index of one *)
(*                chat and the chat's persisted message log                *)
(*                (core/services/state_management/chat_state_service.py).  *)
(*   StorageSpec  RedisStorage.add_chat_message under DistributedLock, for *)
(*                several concurrent callers of one chat                   *)
(*                (storage_service/redis_storage.py).                      *)
(*   WritesSpec   the four lock-guarded write operations of RedisStorage,  *)
(*                called concurrently for one chat.                        *)
(*   LockingSpec  the ChatStateManagerService operations that write a      *)
(*                chat's durable data, with the locks they take.           *)
(*   HistorySpec  the validation and windowing passes of get_chat_history  *)
(*                over every short message list.                           *)
(*   ToolsSpec    BaseAgent._execute_tool_calls_with_retry                 *)
(*                (core/agents/common/base_agent.py).                      *)
(*   AgentSpec    BaseAgent.complete, non-streaming, with the turn and the *)
(*                audit log its tool calls are fed into.                   *)
(*   AuditSpec    ChatStateManagerService.add_tool_call on message logs    *)
(*                around the tool-history limit.                           *)
(*   StateSpec    the operations that write a chat's state document.       *)
(*   TurnsSpec    start_turn called by concurrent requests of one chat.    *)
(*   ReadSpec     RedisStorage.get_chat_history over stored lists with     *)
(*                damaged entries.                                         *)
(*   ViewSpec     ChatStateManagerService.get_chat_history over every      *)
(*                short persisted log.                                     *)
(*   RetrySpec    RedisStorage._execute_with_retry around an operation     *)
(*                that fails in every way.                                 *)
(*   UpdatesSpec  concurrent update_chat_state calls patching different    *)
(*                keys of one chat's state document.                       *)
(*   PromptSpec   the first request BaseAgent.complete sends to the        *)
(*                completion provider, for a chat with earlier turns.      *)
(***************************************************************************)
EXTENDS Integers, Sequences, FiniteSets, TLC

(***************************************************************************)
(* Bounds of the model.                                                    *)
(***************************************************************************)
\* turn ids that _generate_turn_id hands out before the model stops
MaxTurns == 2
\* message ids that _generate_message_id hands out before the model stops
MaxMsgs == 4
\* the largest reading of the wall clock; the clock counts periods of two hours
MaxClock == 1

\* default of cleanup_active_turns(max_age_minutes=60)
DefaultMaxAgeMinutes == 60

TurnIds == 1..MaxTurns
ToolIds == {"call_1", "call_2"}
\* the tool_calls argument of add_assistant_message: None/[] or a list of ids
ToolCallLists == {<<>>, <<"call_1">>, <<"call_2">>, <<"call_1", "call_2">>}
MaxAgeInputs == {0, DefaultMaxAgeMinutes}

NoId == 0
NoTool == "none"
NoTime == -1

VARIABLES
    \* ---- ChatStateManagerService (one chat) ----
    active,       \* self._active_turns[chat_id]: turn_id -> TurnMetadata
    log,          \* the Redis list chat_history:{chat_id}
    nextTurn,     \* source of fresh turn ids (uuid4)
    nextMsg,      \* source of fresh message ids (uuid4)
    now,          \* datetime.now()
    turn_lock,    \* self._turn_locks[chat_id]: "free" or the coroutine holding it
    cl_pc,        \* position of the cleanup_active_turns coroutine
    cl_to_remove, \* its to_remove list
    ret,          \* the last call made on the service and what it returned
    hist,         \* per turn: what has been applied to it so far (history variable)
    \* ---- RedisStorage.add_chat_message, one coroutine per caller ----
    lock_key,     \* per lock name: value of the Redis key lock:{name}:{chat_id}, or NoToken
    op,           \* per caller: the storage operation it is in
    pc,           \* per caller: position in add_chat_message
    arg,          \* per caller: the message dict it was called with
    token,        \* per caller: DistributedLock.identifier of the call
    acquired,     \* per caller: DistributedLock.acquired
    tried,        \* per caller: a SET NX of this call has failed already
    outcome,      \* per caller: how its last call ended
    nextToken,    \* source of fresh lock identifiers (uuid4 + time)
    msg_counter,  \* the Redis key msg_counter:{chat_id}
    lease_lost,   \* per caller: its lease expired while it was inside (history variable)
    release_saw,  \* per caller: what its last release found in the key (history variable)
    lease_expired_inside, \* some lease has expired under its holder (history variable)
    \* ---- the chat's other durable data, and service calls in progress ----
    tool_log,     \* the Redis list tool_history:{chat_id}
    state_doc,    \* the JSON document under chat_state:{chat_id}, or NoDoc
    via,          \* per caller: the service operation it is in, or "storage"
    params,       \* per caller: the other arguments of its call
    cur_state,    \* per caller: current_state of update_chat_state
    landed,       \* ids whose add_chat_message call has returned (history variable)
    log_cut,      \* a trim has removed entries of the message log (history variable)
    \* ---- the passes get_chat_history runs over a message list ----
    messages,       \* the list handed to the passes
    k_turns,        \* the k_turns argument
    repaired,       \* _validate_and_repair_tool_calls(messages)
    repaired_again, \* _validate_and_repair_tool_calls(repaired)
    window,         \* _extract_turns_from_messages(messages, k_turns)
    passes_run,     \* which of the passes have been computed
    h_limit,        \* the limit argument of get_chat_history, 0 for None
    view,           \* what get_chat_history returned
    \* ---- BaseAgent._execute_tool_calls_with_retry ----
    t_pc,         \* "idle", "running" (inside asyncio.gather) or "returned"
    requested,    \* tool_calls: the ids of the requested calls, in request order
    t_attempt,    \* per task: `attempt` of execute_single_tool_call
    t_invoked,    \* per task: how often the tool function was invoked (history variable)
    t_result,     \* per task: what execute_single_tool_call returned, or NoResult
    t_order,      \* the tasks in the order they finished
    t_returned,   \* the list the executor returned
    \* ---- BaseAgent.complete (stream=False, save_to_history=True) ----
    a_pc,         \* position of the complete coroutine
    a_turn,       \* its local turn_id, NoId for None
    a_registered, \* the turn its start_turn call put in the index (history variable)
    a_iteration,  \* its local iteration
    a_max,        \* its max_iterations
    a_outcome,    \* how it terminated: "reply", "limit" or "raise"
    t_bad,        \* per task: its arguments did not parse (history variable)
    t_audit,      \* per task: how its add_tool_call went (history variable)
    t_fed,        \* per task: how its add_tool_result went (history variable)
    \* ---- concurrent start_turn calls ----
    started,      \* the ids each start_turn call generated, in call order (history variable)
    \* ---- RedisStorage.get_chat_history ----
    raw_log,      \* the Redis list chat_history:{chat_id} as stored bytes
    read_limit,   \* the limit argument, 0 for None
    read_status,  \* "none", or how the read ended: "returned" or "raised"
    read_result,  \* the list it returned
    \* ---- RedisStorage._execute_with_retry ----
    max_retries,  \* self.max_retries
    retry_pc,     \* "idle", "loop", "sleeping", "returned" or "raised"
    attempt,      \* the loop variable `attempt`
    retry_seen,   \* how each invocation of the operation ended (history variable)
    retry_slept,  \* total backoff slept, in units of self.retry_delay
    retry_result, \* what the call returned or raised
    \* ---- BaseAgent.complete: the request to the completion provider ----
    llm_messages  \* the `messages` of the first request

svars == <<active, nextTurn, nextMsg, turn_lock, cl_pc, cl_to_remove, ret, hist>>
stvars == <<lock_key, op, pc, arg, token, acquired, tried, outcome, nextToken, msg_counter,
            lease_lost, release_saw, lease_expired_inside>>
\* the chat's other durable data and the calls made on the service
wvars == <<tool_log, state_doc, via, params, cur_state, landed, log_cut>>
\* the history passes and the tool executor
hvars == <<messages, k_turns, repaired, repaired_again, window, passes_run, h_limit, view>>
tvars == <<t_pc, requested, t_attempt, t_invoked, t_result, t_order, t_returned>>
\* the conversation loop
avars == <<a_pc, a_turn, a_registered, a_iteration, a_max, a_outcome, t_bad, t_audit, t_fed>>
\* the start_turn calls made so far
\* a storage history read
rvars == <<raw_log, read_limit, read_status, read_result>>
xvars == <<max_retries, retry_pc, attempt, retry_seen, retry_slept, retry_result>>
cvars == <<started, rvars, xvars, llm_messages>>
evars == <<hvars, cvars, tvars, avars, cvars>>
vars == <<svars, stvars, wvars, evars, log, now>>

(***************************************************************************)
(* Helpers on lists.                                                       *)
(***************************************************************************)
Range(s) == {s[i] : i \in 1..Len(s)}

\* Python's `x in list`
InList(x, s) == \E i \in 1..Len(s) : s[i] = x

\* TurnMetadata(turn_id, user_message_id, assistant_message_id="", created_at)
NewTurnMetadata(uid) ==
    [user_message_id        |-> uid,
     assistant_message_id   |-> NoId,
     tool_call_ids          |-> <<>>,
     completed_tool_results |-> <<>>,
     is_complete            |-> FALSE,
     created_at             |-> now,
     completed_at           |-> NoTime]

\* the message dicts built by start_turn / add_assistant_message / add_tool_result
Message(mid, t, role, tcid, tcs) ==
    [message_id   |-> mid,
     turn_id      |-> t,
     role         |-> role,
     tool_call_id |-> tcid,
     tool_calls   |-> tcs,
     content      |-> "text",
     timestamp    |-> now]

NewHist == [replies |-> 0, last_had_tools |-> FALSE, forced |-> FALSE]

Returned(o, t, c, r) ==
    ret' = [op |-> o, turn |-> t, id |-> c, result |-> r]

\* set(completed_tool_results) == set(tool_call_ids)
AllResultsIn(meta) == Range(meta.completed_tool_results) = Range(meta.tool_call_ids)

\* age_minutes = (current_time - created_time).total_seconds() / 60
AgeMinutes(meta) == (now - meta.created_at) * 120

\* mutant: the index is replaced by one that holds the new turn only
WithTurn_Only(idx, t, meta) == [x \in {t} |-> meta]

\* the turn index with `t` bound to `meta`
WithTurn(idx, t, meta) ==
    [x \in (DOMAIN idx) \cup {t} |-> IF x = t THEN meta ELSE idx[x]]

\* del idx[t]
WithoutTurn(idx, t) == [x \in (DOMAIN idx) \ {t} |-> idx[x]]

(***************************************************************************)
(* RedisStorage with no add_chat_message call in progress.                 *)
(***************************************************************************)
\* callers of add_chat_message for the chat, in one or several processes
NumCallers == 2
\* calls of add_chat_message (DistributedLock instances) before the model stops
MaxCalls == 3

Callers == 1..NumCallers
NoToken == 0

\* the names the storage operations pass to _get_distributed_lock
LockNames == {"chat_write", "tool_write", "trim", "turn"}

\* lines 254, 333, 377, 406: the lock name each operation uses
LockName(o) ==
    CASE o = "add_chat_message"      -> "chat_write"
      [] o = "add_tool_call"         -> "tool_write"
      [] o = "trim_history"          -> "trim"
      [] o = "atomic_turn_operation" -> "turn"
      [] OTHER                       -> "chat_write"

\* versions of the state document written before the model stops
MaxVersion == 1

\* settings.chat_history_limit
ChatHistoryLimit == 5

\* getattr(settings, 'tool_history_limit', 100)
ToolHistoryLimit == 100

\* the keys update_chat_state patches
PatchKeys == {"user_preferences", "conversation_context"}

\* no document under chat_state:{chat_id}; a stored one has version >= 1
NoDoc == [version |-> 0, keys |-> {}]

\* ChatState.create_default(chat_id).dict(): no patched key, no version field
DefaultDoc == [version |-> 0, keys |-> {}]

NoParams == [limit |-> 0, operations |-> <<>>, patch |-> "none"]

WritesIdle ==
    /\ tool_log = <<>>
    /\ state_doc = NoDoc
    /\ via = [p \in Callers |-> "none"]
    /\ params = [p \in Callers |-> NoParams]
    /\ cur_state = [p \in Callers |-> NoDoc]
    /\ landed = {}
    /\ log_cut = FALSE

StorageIdle ==
    /\ lock_key = [k \in LockNames |-> NoToken]
    /\ op = [p \in Callers |-> "none"]
    /\ release_saw = [p \in Callers |-> "none"]
    /\ pc = [p \in Callers |-> "idle"]
    /\ arg = [p \in Callers |-> [message_id |-> NoId, turn_id |-> 1, role |-> "user",
                                 tool_call_id |-> NoTool, tool_calls |-> <<>>,
                                 content |-> "", timestamp |-> NoTime]]
    /\ token = [p \in Callers |-> NoToken]
    /\ acquired = [p \in Callers |-> FALSE]
    /\ tried = [p \in Callers |-> FALSE]
    /\ outcome = [p \in Callers |-> "none"]
    /\ nextToken = 1
    /\ msg_counter = 0
    /\ lease_lost = [p \in Callers |-> FALSE]
    /\ lease_expired_inside = FALSE

(***************************************************************************)
(* Init: a service that has just been constructed and connected.           *)
(***************************************************************************)
ServiceInit ==
    /\ active = <<>>
    /\ log = <<>>
    /\ nextTurn = 1
    /\ nextMsg = 1
    /\ now = 0
    /\ turn_lock = "free"
    /\ cl_pc = "idle"
    /\ cl_to_remove = <<>>
    /\ ret = [op |-> "none", turn |-> NoId, id |-> NoTool, result |-> "none"]
    /\ hist = <<>>

\* the wall clock advances between calls
Tick ==
    /\ now < MaxClock
    /\ now' = now + 1
    /\ UNCHANGED <<svars, stvars, wvars, evars, log>>

(***************************************************************************)
(* start_turn.  `ok` is whether storage.add_chat_message returned; when it *)
(* raises (lock timeout, backend failure) the exception leaves start_turn  *)
(* after the turn was registered.                                          *)
(***************************************************************************)
StartTurn(ok) ==
    /\ turn_lock = "free"
    /\ nextTurn <= MaxTurns
    /\ nextMsg <= MaxMsgs
    /\ nextTurn' = nextTurn + 1
    /\ nextMsg' = nextMsg + 1
    /\ active' = WithTurn(active, nextTurn, NewTurnMetadata(nextMsg))
    /\ hist' = WithTurn(hist, nextTurn, NewHist)
    /\ IF ok
       THEN /\ log' = Append(log, Message(nextMsg, nextTurn, "user", NoTool, <<>>))
            /\ Returned("start_turn", nextTurn, NoTool, "ids")
       ELSE /\ log' = log
            /\ Returned("start_turn", nextTurn, NoTool, "raise")
    /\ UNCHANGED <<now, evars, turn_lock, cl_pc, cl_to_remove, stvars, wvars>>

(***************************************************************************)
(* add_assistant_message.  The metadata is written before the storage call.*)
(***************************************************************************)
\* lines 169-187: what the call makes of the turn's metadata
AssistantMetadata(meta, mid, tool_calls) ==
    IF tool_calls # <<>>
    THEN [meta EXCEPT !.assistant_message_id = mid,
                      !.tool_call_ids = tool_calls]
    ELSE [meta EXCEPT !.assistant_message_id = mid,
                      !.is_complete = TRUE,
                      !.completed_at = now]

AddAssistantMessage(t, tool_calls, ok) ==
    /\ turn_lock = "free"
    /\ IF t \notin DOMAIN active
       THEN /\ Returned("add_assistant_message", t, NoTool, "raise_not_found")
            /\ UNCHANGED <<active, log, nextMsg, hist>>
       ELSE /\ nextMsg <= MaxMsgs
            /\ nextMsg' = nextMsg + 1
            /\ active' = [active EXCEPT ![t] = AssistantMetadata(@, nextMsg, tool_calls)]
            /\ hist' = [hist EXCEPT ![t].replies = IF @ < 2 THEN @ + 1 ELSE @,
                                    ![t].last_had_tools = (tool_calls # <<>>)]
            /\ IF ok
               THEN /\ log' = Append(log, Message(nextMsg, t, "assistant", NoTool, tool_calls))
                    /\ Returned("add_assistant_message", t, NoTool, "id")
               ELSE /\ log' = log
                    /\ Returned("add_assistant_message", t, NoTool, "raise")
    /\ UNCHANGED <<nextTurn, now, evars, turn_lock, cl_pc, cl_to_remove, stvars, wvars>>

(***************************************************************************)
(* add_tool_result.                                                        *)
(***************************************************************************)
\* mutant: the membership test of line 219 left out
IsExpected_Any(meta, c) == TRUE

\* line 219: tool_call_id in turn_metadata.tool_call_ids
IsExpected(meta, c) == InList(c, meta.tool_call_ids)

\* lines 246-247
TrackCompleted(meta, c) ==
    IF InList(c, meta.completed_tool_results)
    THEN meta
    ELSE [meta EXCEPT !.completed_tool_results = Append(@, c)]

\* lines 250-252
MarkIfComplete(meta) ==
    IF AllResultsIn(meta)
    THEN [meta EXCEPT !.is_complete = TRUE, !.completed_at = now]
    ELSE meta

\* mutant: the result is tracked before the storage call
AfterStorageCall_TracksFirst(meta, c, ok) == MarkIfComplete(TrackCompleted(meta, c))

\* lines 243-252: the tracking follows `await self.storage.add_chat_message`,
\* so a call that raises skips it
AfterStorageCall(meta, c, ok) ==
    IF ok THEN MarkIfComplete(TrackCompleted(meta, c)) ELSE meta

AddToolResult(t, c, ok) ==
    /\ turn_lock = "free"
    /\ IF t \notin DOMAIN active
       THEN /\ Returned("add_tool_result", t, c, "false")
            /\ UNCHANGED <<active, log, nextMsg>>
       ELSE IF ~IsExpected(active[t], c)
       THEN /\ Returned("add_tool_result", t, c, "false")
            /\ UNCHANGED <<active, log, nextMsg>>
       ELSE /\ nextMsg <= MaxMsgs
            /\ active' = [active EXCEPT ![t] = AfterStorageCall(@, c, ok)]
            /\ IF ok
               THEN /\ nextMsg' = nextMsg + 1
                    /\ log' = Append(log, Message(nextMsg, t, "tool", c, <<>>))
                    /\ Returned("add_tool_result", t, c,
                                IF AllResultsIn(TrackCompleted(active[t], c))
                                THEN "true" ELSE "false")
               ELSE /\ UNCHANGED <<log, nextMsg>>
                    /\ Returned("add_tool_result", t, c, "raise")
    /\ UNCHANGED <<nextTurn, now, evars, turn_lock, cl_pc, cl_to_remove, hist, stvars, wvars>>

(***************************************************************************)
(* force_complete_turn.  `caller` is "agent" for a call from the           *)
(* conversation loop and "cleanup" for the call cleanup_active_turns makes *)
(* for the head of its to_remove list (line 294), which is followed by the *)
(* del of line 295 and, after the last one, by the release of the lock     *)
(* cleanup_active_turns took.  The asyncio.Lock is not reentrant: the call *)
(* starts only when the lock is free, whoever holds it.                    *)
(***************************************************************************)
\* mutant: forcing also marks every expected tool call as reported
ForcedMetadata_FillsResults(meta) ==
    [meta EXCEPT !.is_complete = TRUE, !.completed_at = now,
                 !.completed_tool_results = meta.tool_call_ids]

\* lines 273-275
ForcedMetadata(meta) == [meta EXCEPT !.is_complete = TRUE, !.completed_at = now]

ForceCompleteTurn(caller, t) ==
    /\ turn_lock = "free"
    /\ caller = "cleanup" => (cl_pc = "force" /\ t = Head(cl_to_remove))
    /\ caller = "agent" => cl_pc = "idle"
    /\ IF t \notin DOMAIN active
       THEN /\ Returned("force_complete_turn", t, NoTool, "false")
            /\ UNCHANGED <<active, hist, cl_pc, cl_to_remove, turn_lock>>
       ELSE /\ Returned("force_complete_turn", t, NoTool, "true")
            /\ IF caller = "cleanup"
               THEN /\ active' = WithoutTurn(active, t)
                    /\ hist' = WithoutTurn(hist, t)
                    /\ cl_to_remove' = Tail(cl_to_remove)
                    /\ cl_pc' = IF Tail(cl_to_remove) = <<>> THEN "idle" ELSE "force"
                    /\ turn_lock' = "free"
               ELSE /\ active' = [active EXCEPT ![t] = ForcedMetadata(@)]
                    /\ hist' = [hist EXCEPT ![t].forced = TRUE]
                    /\ UNCHANGED <<cl_pc, cl_to_remove, turn_lock>>
    /\ UNCHANGED <<log, nextTurn, nextMsg, now, evars, stvars, wvars>>

(***************************************************************************)
(* cleanup_active_turns(chat_id, max_age_minutes); get_chat_history calls  *)
(* it first with the default max_age_minutes.  It takes the chat's lock,   *)
(* collects the turns older than max_age (lines 283-291, no await) and     *)
(* then awaits force_complete_turn for each of them with the lock held.    *)
(***************************************************************************)
\* lines 286-291: the ids of the turns older than max_age, in index order
RECURSIVE OlderThan(_, _)
OlderThan(ids, max_age) ==
    IF ids = {} THEN <<>>
    ELSE LET t == CHOOSE x \in ids : \A y \in ids : x <= y
         IN  IF AgeMinutes(active[t]) > max_age
             THEN <<t>> \o OlderThan(ids \ {t}, max_age)
             ELSE OlderThan(ids \ {t}, max_age)

CleanupActiveTurns(max_age) ==
    /\ turn_lock = "free"
    /\ cl_pc = "idle"
    /\ LET to_remove == OlderThan(DOMAIN active, max_age)
       IN  IF to_remove = <<>>
           THEN /\ Returned("cleanup_active_turns", NoId, NoTool, "none")
                /\ UNCHANGED <<turn_lock, cl_pc, cl_to_remove>>
           ELSE /\ turn_lock' = "cleanup"
                /\ cl_pc' = "force"
                /\ cl_to_remove' = to_remove
                /\ ret' = ret
    /\ UNCHANGED <<active, log, nextTurn, nextMsg, now, evars, hist, stvars, wvars>>

\* the step the cleanup_active_turns coroutine is waiting to take
CleanupStep == cl_pc = "force" /\ ForceCompleteTurn("cleanup", Head(cl_to_remove))

\* storage.add_chat_message returns (TRUE) or raises (FALSE)
StorageOutcomes == <<TRUE, FALSE>>

ServiceNext ==
    \/ Tick
    \/ \E o \in 1..2 : StartTurn(StorageOutcomes[o])
    \/ \E t \in TurnIds, tcs \in ToolCallLists, o \in 1..2 :
          AddAssistantMessage(t, tcs, StorageOutcomes[o])
    \/ \E t \in TurnIds, c \in ToolIds, o \in 1..2 :
          AddToolResult(t, c, StorageOutcomes[o])
    \/ \E caller \in {"agent", "cleanup"}, t \in TurnIds : ForceCompleteTurn(caller, t)
    \/ \E max_age \in MaxAgeInputs : CleanupActiveTurns(max_age)

(***************************************************************************)
(* RedisStorage operations by caller p.  Each one runs                     *)
(*   async with self._get_distributed_lock(name + ":" + chat_id): body     *)
(* with its own lock name.  Every await is a step; between two steps the   *)
(* key's lease may expire.  A Redis list entry is the JSON text of the     *)
(* dict and is read back with json.loads, which returns the dict that was  *)
(* dumped.                                                                 *)
(***************************************************************************)
StorageMessage(mid, content, ts) ==
    [message_id |-> mid, turn_id |-> 1, role |-> "user", tool_call_id |-> NoTool,
     tool_calls |-> <<>>, content |-> content, timestamp |-> ts]

\* the messages callers pass: two with the same id and different content,
\* one with another id and an earlier timestamp, one without id and timestamp
InputMessages ==
    {StorageMessage(1, "x", 1), StorageMessage(1, "y", 0),
     StorageMessage(2, "x", 0), StorageMessage(NoId, "x", NoTime)}

NoMessage == StorageMessage(NoId, "", NoTime)

\* the caller is between the return of acquire and the call of release
InSection(p) == pc[p] \in {"check", "push", "tc_check", "tc_push", "trim", "pipeline"}

\* the first await of the body of each operation
FirstStep(o) ==
    CASE o = "add_chat_message"      -> "check"
      [] o = "add_tool_call"         -> "tc_check"
      [] o = "trim_history"          -> "trim"
      [] o = "atomic_turn_operation" -> "pipeline"
      [] OTHER                       -> "check"

\* the service operations that write under the chat's in-process lock
TurnOps == {"start_turn", "add_assistant_message", "add_tool_result"}

\* the caller's call is over: its locals are dropped, and the `async with`
\* of a turn operation lets go of the in-process lock
Finished(p) ==
    /\ pc' = [pc EXCEPT ![p] = "idle"]
    /\ op' = [op EXCEPT ![p] = "none"]
    /\ via' = [via EXCEPT ![p] = "none"]
    /\ arg' = [arg EXCEPT ![p] = NoMessage]
    /\ token' = [token EXCEPT ![p] = NoToken]
    /\ acquired' = [acquired EXCEPT ![p] = FALSE]
    /\ tried' = [tried EXCEPT ![p] = FALSE]
    /\ params' = [params EXCEPT ![p] = NoParams]
    /\ cur_state' = [cur_state EXCEPT ![p] = NoDoc]
    /\ turn_lock' = IF via[p] \in TurnOps THEN "free" ELSE turn_lock

\* the caller enters storage operation o: a new DistributedLock(...) whose
\* identifier is uuid4 + time
Enters(p, o, tok) ==
    /\ pc' = [pc EXCEPT ![p] = "acquire"]
    /\ op' = [op EXCEPT ![p] = o]
    /\ token' = [token EXCEPT ![p] = tok]
    /\ acquired' = [acquired EXCEPT ![p] = FALSE]
    /\ tried' = [tried EXCEPT ![p] = FALSE]
    /\ lease_lost' = [lease_lost EXCEPT ![p] = FALSE]

\* storage.add_chat_message(chat_id, m) called directly
CallAddChatMessage(p, m) ==
    /\ pc[p] = "idle"
    /\ nextToken <= MaxCalls
    /\ Enters(p, "add_chat_message", nextToken)
    /\ via' = [via EXCEPT ![p] = "storage"]
    /\ arg' = [arg EXCEPT ![p] = m]
    /\ nextToken' = nextToken + 1
    /\ outcome' = [outcome EXCEPT ![p] = "pending"]
    /\ release_saw' = [release_saw EXCEPT ![p] = "none"]
    /\ UNCHANGED <<lock_key, msg_counter, lease_expired_inside, log, now, evars, svars,
                   tool_log, state_doc, params, cur_state, landed, log_cut>>

\* mutant: SET without nx=True
SetNx_Overwrite(cur, tok) == tok

\* redis SET key tok NX EX timeout: the value of the key afterwards
SetNx(cur, tok) == IF cur = NoToken THEN tok ELSE cur

\* one round of the loop of DistributedLock.acquire (lines 41-56)
Acquire(p) ==
    /\ pc[p] = "acquire"
    /\ LET k == LockName(op[p]) IN
         /\ lock_key' = [lock_key EXCEPT ![k] = SetNx(@, token[p])]
         /\ IF lock_key'[k] = token[p]
            THEN /\ acquired' = [acquired EXCEPT ![p] = TRUE]
                 /\ pc' = [pc EXCEPT ![p] = FirstStep(op[p])]
                 /\ tried' = tried
            ELSE /\ tried' = [tried EXCEPT ![p] = TRUE]
                 /\ UNCHANGED <<acquired, pc>>
    /\ UNCHANGED <<op, arg, token, outcome, nextToken, msg_counter, lease_lost,
                   release_saw, lease_expired_inside, log, now, evars, svars, wvars>>

\* the loop ends after end_time: acquire raises, the body never runs and
\* __aexit__ is not called (lines 58-59); the exception ends the caller's call
AcquireTimeout(p) ==
    /\ pc[p] = "acquire"
    /\ tried[p]
    /\ Finished(p)
    /\ outcome' = [outcome EXCEPT ![p] = "lock_timeout"]
    /\ UNCHANGED <<lock_key, nextToken, msg_counter, lease_lost, release_saw,
                   lease_expired_inside, log, now, evars, tool_log, state_doc, landed, log_cut,
                   active, nextTurn, nextMsg, cl_pc, cl_to_remove, ret, hist>>

\* lines 259-267: message_id and timestamp are filled in when absent
Completed(m, counter) ==
    [m EXCEPT !.message_id = IF m.message_id = NoId THEN -(counter + 1) ELSE @,
              !.timestamp = IF m.timestamp = NoTime THEN now ELSE @]

\* mutant: the scan for the message id left out
IsDuplicate_Never(m, entries) == FALSE

\* lines 274-283: some entry of the list carries the message's id
IsDuplicate(m, entries) ==
    \E i \in 1..Len(entries) : entries[i].message_id = m.message_id

\* lines 257-283; `ok` is whether the Redis reads succeeded within the retries
CheckDuplicate(p, ok) ==
    /\ pc[p] = "check"
    /\ IF ~ok
       THEN /\ pc' = [pc EXCEPT ![p] = "release"]
            /\ outcome' = [outcome EXCEPT ![p] = "raise"]
            /\ UNCHANGED <<arg, msg_counter>>
       ELSE /\ arg' = [arg EXCEPT ![p] = Completed(@, msg_counter)]
            /\ msg_counter' = IF arg[p].message_id = NoId THEN msg_counter + 1 ELSE msg_counter
            /\ IF IsDuplicate(arg'[p], log)
               THEN /\ pc' = [pc EXCEPT ![p] = "release"]
                    /\ outcome' = [outcome EXCEPT ![p] = "skipped"]
               ELSE /\ pc' = [pc EXCEPT ![p] = "push"]
                    /\ outcome' = outcome
    /\ UNCHANGED <<lock_key, op, token, acquired, tried, nextToken, lease_lost,
                   release_saw, lease_expired_inside, log, now, evars, svars, wvars>>

\* lines 286-290: RPUSH + EXPIRE in one pipeline
Push(p, ok) ==
    /\ pc[p] = "push"
    /\ pc' = [pc EXCEPT ![p] = "release"]
    /\ IF ok
       THEN /\ log' = Append(log, arg[p])
            /\ outcome' = [outcome EXCEPT ![p] = "added"]
       ELSE /\ log' = log
            /\ outcome' = [outcome EXCEPT ![p] = "raise"]
    /\ UNCHANGED <<lock_key, op, arg, token, acquired, tried, nextToken, msg_counter,
                   lease_lost, release_saw, lease_expired_inside, now, evars, svars, wvars>>

\* mutant: DEL without the comparison of the key's value
LuaRelease_Unchecked(cur, tok, acq) == NoToken

\* lines 63-76: the value of the key after release; nothing is sent when the
\* lock was never acquired, else the Lua script deletes the key if it holds tok
LuaRelease(cur, tok, acq) == IF acq /\ cur = tok THEN NoToken ELSE cur

\* what the GET of the Lua script finds in the key
Found(cur, tok) ==
    IF cur = tok THEN "own" ELSE IF cur = NoToken THEN "absent" ELSE "other"

\* the id a successful add_chat_message call leaves in the log
LandedAfter(p) ==
    IF op[p] = "add_chat_message" /\ outcome[p] \in {"added", "skipped"} /\ ~log_cut
    THEN landed \cup {arg[p].message_id}
    ELSE landed

\* __aexit__: DistributedLock.release (lines 61-86), then the code that
\* follows the `async with` up to the caller's next await
Release(p) ==
    /\ pc[p] = "release"
    /\ LET k == LockName(op[p]) IN
         /\ lock_key' = [lock_key EXCEPT ![k] = LuaRelease(@, token[p], acquired[p])]
         /\ release_saw' = [release_saw EXCEPT ![p] = Found(lock_key[k], token[p])]
    /\ landed' = LandedAfter(p)
    /\ IF via[p] = "add_tool_call" /\ op[p] = "add_tool_call" /\ outcome[p] # "raise"
       THEN \* chat_state_service.py lines 586-587: trim_history(chat_id, tool_limit)
            /\ Enters(p, "trim_history", token[p] + 1)
            /\ params' = [params EXCEPT ![p].limit = ToolHistoryLimit]
            /\ UNCHANGED <<via, arg, cur_state, turn_lock>>
       ELSE /\ Finished(p)
            /\ lease_lost' = lease_lost
    /\ UNCHANGED <<outcome, nextToken, msg_counter, lease_expired_inside, log, now, evars,
                   tool_log, state_doc, log_cut,
                   active, nextTurn, nextMsg, cl_pc, cl_to_remove, ret, hist>>

\* the lease set by ex=int(timeout) runs out and Redis drops the key
LeaseExpires(k) ==
    /\ lock_key[k] # NoToken
    /\ lock_key' = [lock_key EXCEPT ![k] = NoToken]
    /\ lease_lost' = [p \in Callers |->
                        lease_lost[p] \/ (token[p] = lock_key[k] /\ InSection(p))]
    /\ lease_expired_inside' =
          (lease_expired_inside \/ \E p \in Callers : token[p] = lock_key[k] /\ InSection(p))
    /\ UNCHANGED <<op, pc, arg, token, acquired, tried, outcome, nextToken, msg_counter,
                   release_saw, log, now, evars, svars, wvars>>

StorageNext ==
    \/ \E p \in Callers, m \in InputMessages : CallAddChatMessage(p, m)
    \/ \E p \in Callers : Acquire(p)
    \/ \E p \in Callers : AcquireTimeout(p)
    \/ \E p \in Callers, o \in 1..2 : CheckDuplicate(p, StorageOutcomes[o])
    \/ \E p \in Callers, o \in 1..2 : Push(p, StorageOutcomes[o])
    \/ \E p \in Callers : Release(p)
    \/ \E k \in LockNames : LeaseExpires(k)

(***************************************************************************)
(* The other writers of a chat's durable data: the remaining RedisStorage  *)
(* operations and the ChatStateManagerService operations that call them.   *)
(***************************************************************************)
\* the last n entries of a list: LTRIM key -n -1, LRANGE key -n -1, list[-n:]
LastN(s, n) == IF Len(s) <= n THEN s ELSE SubSeq(s, Len(s) - n + 1, Len(s))

RoleOf(v) ==
    CASE v = "start_turn"            -> "user"
      [] v = "add_assistant_message" -> "assistant"
      [] v = "add_tool_result"       -> "tool"
      [] OTHER                       -> "user"

\* the id _generate_message_id gives the message of this call
FreshMessageId == 10 + nextToken

\* start_turn / add_assistant_message / add_tool_result take the chat's
\* in-process lock and call storage.add_chat_message with the message they built
CallTurnOp(p, v) ==
    /\ pc[p] = "idle"
    /\ turn_lock = "free"
    /\ nextToken <= MaxCalls
    /\ turn_lock' = "request"
    /\ Enters(p, "add_chat_message", nextToken)
    /\ via' = [via EXCEPT ![p] = v]
    /\ arg' = [arg EXCEPT ![p] = [StorageMessage(FreshMessageId, "x", now)
                                    EXCEPT !.role = RoleOf(v)]]
    /\ nextToken' = nextToken + 1
    /\ outcome' = [outcome EXCEPT ![p] = "pending"]
    /\ release_saw' = [release_saw EXCEPT ![p] = "none"]
    /\ UNCHANGED <<lock_key, msg_counter, lease_expired_inside, log, now, evars,
                   tool_log, state_doc, params, cur_state, landed, log_cut,
                   active, nextTurn, nextMsg, cl_pc, cl_to_remove, ret, hist>>

\* the tool_call dict of ChatStateManagerService.add_tool_call (lines 570-576)
ToolCallEntry(c) ==
    [StorageMessage(NoId, "x", now) EXCEPT !.role = "tool_call", !.tool_call_id = c]

\* ChatStateManagerService.add_tool_call: storage.add_tool_call, then
\* storage.trim_history(chat_id, tool_limit); no in-process lock is taken
CallAddToolCall(p, c) ==
    /\ pc[p] = "idle"
    /\ nextToken + 1 <= MaxCalls
    /\ Enters(p, "add_tool_call", nextToken)
    /\ via' = [via EXCEPT ![p] = "add_tool_call"]
    /\ arg' = [arg EXCEPT ![p] = ToolCallEntry(c)]
    /\ nextToken' = nextToken + 2
    /\ outcome' = [outcome EXCEPT ![p] = "pending"]
    /\ release_saw' = [release_saw EXCEPT ![p] = "none"]
    /\ UNCHANGED <<lock_key, msg_counter, lease_expired_inside, log, now, evars, svars,
                   tool_log, state_doc, params, cur_state, landed, log_cut>>

\* redis_storage.py lines 341-357: the scan of tool_history for the id
ToolCallCheck(p, ok) ==
    /\ pc[p] = "tc_check"
    /\ IF ~ok
       THEN /\ pc' = [pc EXCEPT ![p] = "release"]
            /\ outcome' = [outcome EXCEPT ![p] = "raise"]
       ELSE IF \E i \in 1..Len(tool_log) : tool_log[i].tool_call_id = arg[p].tool_call_id
            THEN /\ pc' = [pc EXCEPT ![p] = "release"]
                 /\ outcome' = [outcome EXCEPT ![p] = "skipped"]
            ELSE /\ pc' = [pc EXCEPT ![p] = "tc_push"]
                 /\ outcome' = outcome
    /\ UNCHANGED <<lock_key, op, arg, token, acquired, tried, nextToken, msg_counter,
                   lease_lost, release_saw, lease_expired_inside, log, now, evars, svars, wvars>>

\* redis_storage.py lines 360-364: RPUSH + EXPIRE on tool_history
ToolCallPush(p, ok) ==
    /\ pc[p] = "tc_push"
    /\ pc' = [pc EXCEPT ![p] = "release"]
    /\ IF ok
       THEN /\ tool_log' = Append(tool_log, arg[p])
            /\ outcome' = [outcome EXCEPT ![p] = "added"]
       ELSE /\ tool_log' = tool_log
            /\ outcome' = [outcome EXCEPT ![p] = "raise"]
    /\ UNCHANGED <<lock_key, op, arg, token, acquired, tried, nextToken, msg_counter,
                   lease_lost, release_saw, lease_expired_inside, log, now, evars, svars,
                   state_doc, via, params, cur_state, landed, log_cut>>

\* the limits trim_history is called with: 0 (delete), a small one, the
\* tool-history limit
TrimLimits == {0, 1, ToolHistoryLimit}

\* storage.trim_history(chat_id, limit) called directly
CallTrimHistory(p, limit) ==
    /\ pc[p] = "idle"
    /\ nextToken <= MaxCalls
    /\ Enters(p, "trim_history", nextToken)
    /\ via' = [via EXCEPT ![p] = "storage"]
    /\ params' = [params EXCEPT ![p].limit = limit]
    /\ nextToken' = nextToken + 1
    /\ outcome' = [outcome EXCEPT ![p] = "pending"]
    /\ release_saw' = [release_saw EXCEPT ![p] = "none"]
    /\ UNCHANGED <<lock_key, arg, msg_counter, lease_expired_inside, log, now, evars, svars,
                   tool_log, state_doc, cur_state, landed, log_cut>>

\* lines 383-390: what trim_history leaves of a list
Trimmed(s, limit) == IF limit = 0 THEN <<>> ELSE LastN(s, limit)

\* lines 381-392: DEL or LTRIM of both lists in one pipeline
Trim(p, ok) ==
    /\ pc[p] = "trim"
    /\ pc' = [pc EXCEPT ![p] = "release"]
    /\ IF ok
       THEN /\ log' = Trimmed(log, params[p].limit)
            /\ tool_log' = Trimmed(tool_log, params[p].limit)
            /\ log_cut' = (log_cut \/ log' # log)
            /\ landed' = IF log_cut' THEN {} ELSE landed
            /\ outcome' = [outcome EXCEPT ![p] = "added"]
       ELSE /\ UNCHANGED <<log, tool_log, log_cut, landed>>
            /\ outcome' = [outcome EXCEPT ![p] = "raise"]
    /\ UNCHANGED <<lock_key, op, arg, token, acquired, tried, nextToken, msg_counter,
                   lease_lost, release_saw, lease_expired_inside, now, evars, svars,
                   state_doc, via, params, cur_state>>

\* an entry of the operations list of atomic_turn_operation
Operation(type, m, doc) == [type |-> type, message |-> m, state |-> doc]

\* the operation lists callers pass
OperationLists ==
    {<<Operation("add_message", StorageMessage(2, "y", 0), NoDoc)>>,
     <<Operation("add_tool_call", StorageMessage(NoId, "x", 0), NoDoc),
       Operation("update_state", NoMessage, [version |-> 1, keys |-> {}])>>}

\* storage.atomic_turn_operation(chat_id, operations) called directly
CallAtomicTurnOperation(p, operations) ==
    /\ pc[p] = "idle"
    /\ nextToken <= MaxCalls
    /\ Enters(p, "atomic_turn_operation", nextToken)
    /\ via' = [via EXCEPT ![p] = "storage"]
    /\ params' = [params EXCEPT ![p].operations = operations]
    /\ nextToken' = nextToken + 1
    /\ outcome' = [outcome EXCEPT ![p] = "pending"]
    /\ release_saw' = [release_saw EXCEPT ![p] = "none"]
    /\ UNCHANGED <<lock_key, arg, msg_counter, lease_expired_inside, log, now, evars, svars,
                   tool_log, state_doc, cur_state, landed, log_cut>>

\* lines 411-429: the commands the loop queues, applied in order
RECURSIVE ApplyOperations(_, _)
ApplyOperations(operations, data) ==
    IF operations = <<>> THEN data
    ELSE LET o == Head(operations)
             m == [o.message EXCEPT !.timestamp = IF @ = NoTime THEN now ELSE @]
         IN ApplyOperations(Tail(operations),
               CASE o.type = "add_message" ->
                      [data EXCEPT !.log = Append(@, m)]
                 [] o.type = "add_tool_call" ->
                      [data EXCEPT !.tool_log = Append(@, m)]
                 [] o.type = "update_state" ->
                      [data EXCEPT !.state_doc = o.state]
                 [] OTHER -> data)

\* line 435: the queued commands run as one MULTI/EXEC
Pipeline(p, ok) ==
    /\ pc[p] = "pipeline"
    /\ pc' = [pc EXCEPT ![p] = "release"]
    /\ IF ok
       THEN LET data == ApplyOperations(params[p].operations,
                           [log |-> log, tool_log |-> tool_log, state_doc |-> state_doc])
            IN /\ log' = data.log
               /\ tool_log' = data.tool_log
               /\ state_doc' = data.state_doc
               /\ outcome' = [outcome EXCEPT ![p] = "added"]
       ELSE /\ UNCHANGED <<log, tool_log, state_doc>>
            /\ outcome' = [outcome EXCEPT ![p] = "raise"]
    /\ UNCHANGED <<lock_key, op, arg, token, acquired, tried, nextToken, msg_counter,
                   lease_lost, release_saw, lease_expired_inside, now, evars, svars,
                   via, params, cur_state, landed, log_cut>>

\* update_chat_state(chat_id, {key: ...}): get_chat_state, merge, set_chat_state;
\* neither lock is taken
EntersUpdate(p, key) ==
    /\ pc[p] = "idle"
    /\ pc' = [pc EXCEPT ![p] = "get_state"]
    /\ via' = [via EXCEPT ![p] = "update_chat_state"]
    /\ params' = [params EXCEPT ![p].patch = key]
    /\ outcome' = [outcome EXCEPT ![p] = "pending"]
    /\ UNCHANGED <<lock_key, op, arg, token, acquired, tried, nextToken, msg_counter,
                   lease_lost, release_saw, lease_expired_inside, log, now, evars, svars,
                   tool_log, state_doc, cur_state, landed, log_cut>>

\* update_chat_state called while the document's version is below the bound
CallUpdateChatState(p, key) ==
    /\ state_doc.version < MaxVersion
    /\ EntersUpdate(p, key)

\* get_chat_state, redis GET (chat_state_service.py line 473)
GetState(p, ok) ==
    /\ pc[p] = "get_state"
    /\ IF ~ok
       THEN /\ Finished(p)
            /\ outcome' = [outcome EXCEPT ![p] = "raise"]
       ELSE /\ cur_state' = [cur_state EXCEPT ![p] =
                               IF state_doc = NoDoc THEN DefaultDoc ELSE state_doc]
            /\ pc' = [pc EXCEPT ![p] = IF state_doc = NoDoc THEN "create_state"
                                                            ELSE "set_state"]
            /\ UNCHANGED <<op, via, arg, token, acquired, tried, params, turn_lock, outcome>>
    /\ UNCHANGED <<lock_key, nextToken, msg_counter, lease_lost, release_saw,
                   lease_expired_inside, log, now, evars, tool_log, state_doc, landed, log_cut,
                   active, nextTurn, nextMsg, cl_pc, cl_to_remove, ret, hist>>

\* set_chat_state (redis_storage.py lines 202-213): the document stored for `state`
Stored(state) == [state EXCEPT !.version = @ + 1]

\* get_chat_state found nothing: the default is stored and returned (lines 475-479)
CreateState(p, ok) ==
    /\ pc[p] = "create_state"
    /\ IF ~ok
       THEN /\ Finished(p)
            /\ outcome' = [outcome EXCEPT ![p] = "raise"]
            /\ state_doc' = state_doc
       ELSE /\ state_doc' = Stored(cur_state[p])
            /\ pc' = [pc EXCEPT ![p] = "set_state"]
            /\ UNCHANGED <<op, via, arg, token, acquired, tried, params, cur_state,
                           turn_lock, outcome>>
    /\ UNCHANGED <<lock_key, nextToken, msg_counter, lease_lost, release_saw,
                   lease_expired_inside, log, now, evars, tool_log, landed, log_cut,
                   active, nextTurn, nextMsg, cl_pc, cl_to_remove, ret, hist>>

\* current_state.update(state_update) (line 494)
Merged(state, key) == IF key = "none" THEN state ELSE [state EXCEPT !.keys = @ \cup {key}]

\* storage.set_chat_state of update_chat_state (line 497) and of
\* clear_chat_data (line 603), which goes on to trim_history(chat_id, 0)
SetState(p, ok) ==
    /\ pc[p] = "set_state"
    /\ state_doc' = IF ok THEN Stored(Merged(cur_state[p], params[p].patch)) ELSE state_doc
    /\ IF ok /\ via[p] = "clear_chat_data"
       THEN /\ Enters(p, "trim_history", token[p])
            /\ UNCHANGED <<via, arg, params, cur_state, turn_lock>>
            /\ outcome' = outcome
       ELSE /\ Finished(p)
            /\ outcome' = [outcome EXCEPT ![p] = IF ok THEN "added" ELSE "raise"]
            /\ lease_lost' = lease_lost
    /\ UNCHANGED <<lock_key, nextToken, msg_counter, release_saw,
                   lease_expired_inside, log, now, evars, tool_log, landed, log_cut,
                   active, nextTurn, nextMsg, cl_pc, cl_to_remove, ret, hist>>

\* clear_chat_data: the turn index is cleared under the in-process lock, which
\* is let go before the storage calls (lines 599-604)
CallClearChatData(p) ==
    /\ pc[p] = "idle"
    /\ turn_lock = "free"
    /\ nextToken <= MaxCalls
    /\ active' = <<>>
    /\ hist' = <<>>
    /\ pc' = [pc EXCEPT ![p] = "set_state"]
    /\ via' = [via EXCEPT ![p] = "clear_chat_data"]
    /\ token' = [token EXCEPT ![p] = nextToken]
    /\ nextToken' = nextToken + 1
    /\ cur_state' = [cur_state EXCEPT ![p] = DefaultDoc]
    /\ params' = [params EXCEPT ![p] = NoParams]
    /\ outcome' = [outcome EXCEPT ![p] = "pending"]
    /\ release_saw' = [release_saw EXCEPT ![p] = "none"]
    /\ UNCHANGED <<lock_key, op, arg, acquired, tried, msg_counter, lease_lost,
                   lease_expired_inside, log, now, evars, tool_log, state_doc, landed, log_cut,
                   nextTurn, nextMsg, turn_lock, cl_pc, cl_to_remove, ret>>

\* the messages passed to add_chat_message directly: distinct ids, the later
\* call carrying the earlier timestamp
WriteMessages == {StorageMessage(1, "x", 1), StorageMessage(2, "x", 0)}

\* the four lock-guarded storage operations, called concurrently
WritesNext ==
    \/ \E p \in Callers, m \in WriteMessages : CallAddChatMessage(p, m)
    \/ \E p \in Callers, c \in ToolIds : CallAddToolCall(p, c)
    \/ \E p \in Callers, limit \in TrimLimits : CallTrimHistory(p, limit)
    \/ \E p \in Callers, operations \in OperationLists : CallAtomicTurnOperation(p, operations)
    \/ \E p \in Callers : Acquire(p)
    \/ \E p \in Callers : AcquireTimeout(p)
    \/ \E p \in Callers, o \in 1..2 : CheckDuplicate(p, StorageOutcomes[o])
    \/ \E p \in Callers, o \in 1..2 : Push(p, StorageOutcomes[o])
    \/ \E p \in Callers, o \in 1..2 : ToolCallCheck(p, StorageOutcomes[o])
    \/ \E p \in Callers, o \in 1..2 : ToolCallPush(p, StorageOutcomes[o])
    \/ \E p \in Callers, o \in 1..2 : Trim(p, StorageOutcomes[o])
    \/ \E p \in Callers, o \in 1..2 : Pipeline(p, StorageOutcomes[o])
    \/ \E p \in Callers : Release(p)
    \/ \E k \in LockNames : LeaseExpires(k)

\* the operations of ChatStateManagerService that write durable data
LockingNext ==
    \/ \E p \in Callers, v \in TurnOps : CallTurnOp(p, v)
    \/ \E p \in Callers, c \in ToolIds : CallAddToolCall(p, c)
    \/ \E p \in Callers, key \in PatchKeys : CallUpdateChatState(p, key)
    \/ \E p \in Callers : CallClearChatData(p)
    \/ \E p \in Callers : Acquire(p)
    \/ \E p \in Callers : AcquireTimeout(p)
    \/ \E p \in Callers, o \in 1..2 : CheckDuplicate(p, StorageOutcomes[o])
    \/ \E p \in Callers, o \in 1..2 : Push(p, StorageOutcomes[o])
    \/ \E p \in Callers, o \in 1..2 : ToolCallCheck(p, StorageOutcomes[o])
    \/ \E p \in Callers, o \in 1..2 : ToolCallPush(p, StorageOutcomes[o])
    \/ \E p \in Callers, o \in 1..2 : Trim(p, StorageOutcomes[o])
    \/ \E p \in Callers, o \in 1..2 : GetState(p, StorageOutcomes[o])
    \/ \E p \in Callers, o \in 1..2 : CreateState(p, StorageOutcomes[o])
    \/ \E p \in Callers, o \in 1..2 : SetState(p, StorageOutcomes[o])
    \/ \E p \in Callers : Release(p)
    \/ \E k \in LockNames : LeaseExpires(k)

(***************************************************************************)
(* The passes of get_chat_history over a message list:                     *)
(* _validate_and_repair_tool_calls and _extract_turns_from_messages.       *)
(***************************************************************************)
\* messages in the lists handed to the passes
MaxLen == 4
\* the largest k_turns
MaxK == 3

\* the kinds of message of a log: a user message, an assistant reply without
\* tool calls, an assistant reply announcing tool calls, a tool result
Shapes == {"U", "A", "A1", "A2", "A12", "T1", "T2"}

\* the message of the given kind at position i of a list; ids are unique
ShapeMessage(shape, i) ==
    CASE shape = "U"   -> Message(i, 1, "user", NoTool, <<>>)
      [] shape = "A"   -> Message(i, 1, "assistant", NoTool, <<>>)
      [] shape = "A1"  -> Message(i, 1, "assistant", NoTool, <<"call_1">>)
      [] shape = "A2"  -> Message(i, 1, "assistant", NoTool, <<"call_2">>)
      [] shape = "A12" -> Message(i, 1, "assistant", NoTool, <<"call_1", "call_2">>)
      [] shape = "T1"  -> Message(i, 1, "tool", "call_1", <<>>)
      [] shape = "T2"  -> Message(i, 1, "tool", "call_2", <<>>)

\* every list of at most MaxLen messages
MessageLists ==
    UNION {{[i \in 1..n |-> ShapeMessage(f[i], i)] : f \in [1..n -> Shapes]} : n \in 0..MaxLen}

KInputs == 0..MaxK

HistoryIdle ==
    /\ messages = <<>>
    /\ k_turns = 0
    /\ repaired = <<>>
    /\ repaired_again = <<>>
    /\ window = <<>>
    /\ passes_run = {}
    /\ h_limit = 0
    /\ view = <<>>

\* pending_tool_calls = {}
NoPending == [c \in {} |-> NoMessage]

\* lines 332-338 and 351-357: the assistant messages that are values of
\* pending_tool_calls are popped from repaired_messages
WithoutAnnouncers(repaired_messages, pending) ==
    LET Kept(m) == m \notin {pending[c] : c \in DOMAIN pending}
    IN SelectSeq(repaired_messages, Kept)

\* mutant: a kept tool message leaves its id pending
Resolved_StillPending(pending, c) == pending

\* line 318: del pending_tool_calls[tool_call_id]
Resolved(pending, c) == [d \in DOMAIN pending \ {c} |-> pending[d]]

\* the loop of lines 303-347 over the rest of the list, then lines 350-363
RECURSIVE RepairFrom(_, _, _)
RepairFrom(rest, repaired_messages, pending) ==
    IF rest = <<>>
    THEN IF DOMAIN pending # {}
         THEN WithoutAnnouncers(repaired_messages, pending)
         ELSE repaired_messages
    ELSE LET msg == Head(rest) IN
         IF msg.role = "assistant" /\ msg.tool_calls # <<>>
         THEN RepairFrom(Tail(rest), Append(repaired_messages, msg),
                         [c \in DOMAIN pending \cup Range(msg.tool_calls) |->
                             IF c \in Range(msg.tool_calls) THEN msg ELSE pending[c]])
         ELSE IF msg.role = "tool"
         THEN IF msg.tool_call_id # NoTool /\ msg.tool_call_id \in DOMAIN pending
              THEN RepairFrom(Tail(rest), Append(repaired_messages, msg),
                              Resolved(pending, msg.tool_call_id))
              ELSE RepairFrom(Tail(rest), repaired_messages, pending)
         ELSE IF DOMAIN pending # {} /\ msg.role = "user"
              THEN RepairFrom(Tail(rest),
                              Append(WithoutAnnouncers(repaired_messages, pending), msg),
                              NoPending)
              ELSE RepairFrom(Tail(rest), Append(repaired_messages, msg), pending)

\* _validate_and_repair_tool_calls(messages)
ValidateAndRepairToolCalls(msgs) == RepairFrom(msgs, <<>>, NoPending)

\* lines 373-392: the turns of the rest of the list
RECURSIVE TurnsFrom(_, _, _)
TurnsFrom(rest, turns, current_turn) ==
    IF rest = <<>>
    THEN IF current_turn # <<>> THEN Append(turns, current_turn) ELSE turns
    ELSE LET msg == Head(rest) IN
         IF msg.role = "user"
         THEN TurnsFrom(Tail(rest),
                        IF current_turn # <<>> THEN Append(turns, current_turn) ELSE turns,
                        <<msg>>)
         ELSE IF msg.role \in {"assistant", "tool"} /\ current_turn # <<>>
              THEN TurnsFrom(Tail(rest), turns, Append(current_turn, msg))
              ELSE TurnsFrom(Tail(rest), turns, current_turn)

\* lines 399-401: result_messages.extend(turn) for each turn
RECURSIVE Flattened(_)
Flattened(turns) == IF turns = <<>> THEN <<>> ELSE Head(turns) \o Flattened(Tail(turns))

\* mutant: no window is cut
ExtractTurnsFromMessages_All(msgs, k) == Flattened(TurnsFrom(msgs, <<>>, <<>>))

\* _extract_turns_from_messages(messages, k_turns)
ExtractTurnsFromMessages(msgs, k) ==
    IF msgs = <<>> THEN <<>>
    ELSE LET turns == TurnsFrom(msgs, <<>>, <<>>)
         IN Flattened(IF k > 0 THEN LastN(turns, k) ELSE turns)

\* the validation pass is run on the list
Validate ==
    /\ "validate" \notin passes_run
    /\ repaired' = ValidateAndRepairToolCalls(messages)
    /\ passes_run' = passes_run \cup {"validate"}
    /\ UNCHANGED <<messages, k_turns, repaired_again, window, h_limit, view, tvars, avars, cvars,
                   svars, stvars, wvars, log, now>>

\* the validation pass is run on its own output
ValidateAgain ==
    /\ "validate" \in passes_run
    /\ "validate_again" \notin passes_run
    /\ repaired_again' = ValidateAndRepairToolCalls(repaired)
    /\ passes_run' = passes_run \cup {"validate_again"}
    /\ UNCHANGED <<messages, k_turns, repaired, window, h_limit, view, tvars, avars, cvars,
                   svars, stvars, wvars, log, now>>

\* the windowing pass is run on the list
ExtractTurns ==
    /\ "extract" \notin passes_run
    /\ window' = ExtractTurnsFromMessages(messages, k_turns)
    /\ passes_run' = passes_run \cup {"extract"}
    /\ UNCHANGED <<messages, k_turns, repaired, repaired_again, h_limit, view, tvars, avars, cvars,
                   svars, stvars, wvars, log, now>>

HistoryNext == Validate \/ ValidateAgain \/ ExtractTurns

(***************************************************************************)
(* BaseAgent._execute_tool_calls_with_retry: one execute_single_tool_call  *)
(* task per requested call, run concurrently by asyncio.gather.  A step of *)
(* task i is one attempt: asyncio.wait_for(_execute_tool_call(...)).       *)
(***************************************************************************)
\* tool_call_retry_attempts: int = 3
RetryAttempts == 3

\* the lists of requested calls
RequestLists == ToolCallLists \cup {<<"call_2", "call_1">>}

\* the tasks of the longest request list
TaskIds == 1..Cardinality(ToolIds)

\* how an attempt can go: the tool function returns, raises, or does not
\* return within max_tool_call_timeout
Behaviours == {"returns", "raises", "hangs"}

NoResult == [tool_call_id |-> NoTool, role |-> "none", kind |-> "none"]

\* the dicts of lines 398-403, 482-487 and 511-516
ToolResult(c, kind) == [tool_call_id |-> c, role |-> "tool", kind |-> kind]

ToolsIdle ==
    /\ t_pc = "idle"
    /\ requested = <<>>
    /\ t_attempt = <<>>
    /\ t_invoked = <<>>
    /\ t_result = <<>>
    /\ t_order = <<>>
    /\ t_returned = <<>>

\* lines 422-423: the tasks are created and gathered
ExecuteToolCalls(calls) ==
    /\ t_pc = "idle"
    /\ t_pc' = "running"
    /\ requested' = calls
    /\ t_attempt' = [i \in 1..Len(calls) |-> 0]
    /\ t_invoked' = [i \in 1..Len(calls) |-> 0]
    /\ t_result' = [i \in 1..Len(calls) |-> NoResult]
    /\ t_order' = <<>>
    /\ t_returned' = <<>>
    /\ UNCHANGED <<hvars, avars, cvars, svars, stvars, wvars, log, now>>

\* task i is finished with result r
Finishes(i, r) ==
    /\ t_result' = [t_result EXCEPT ![i] = r]
    /\ t_order' = Append(t_order, i)
    /\ t_attempt' = t_attempt

\* one attempt of task i (lines 381-419 around _execute_tool_call, 425-516):
\* _execute_tool_call turns a raised exception into an error result itself;
\* only the TimeoutError of wait_for reaches the retry loop
Attempt(i, behaviour) ==
    /\ t_pc = "running"
    /\ i \in 1..Len(requested)
    /\ t_result[i] = NoResult
    /\ t_invoked' = [t_invoked EXCEPT ![i] = @ + 1]
    /\ CASE behaviour = "returns" -> Finishes(i, ToolResult(requested[i], "success"))
         [] behaviour = "raises"  -> Finishes(i, ToolResult(requested[i], "error"))
         [] behaviour = "hangs"   ->
              IF t_attempt[i] < RetryAttempts - 1
              THEN /\ t_attempt' = [t_attempt EXCEPT ![i] = @ + 1]
                   /\ UNCHANGED <<t_result, t_order>>
              ELSE Finishes(i, ToolResult(requested[i], "timeout"))
    /\ UNCHANGED <<t_pc, requested, t_returned, hvars, avars, cvars, svars, stvars, wvars, log, now>>

\* mutant: the results in the order the tasks finished
Gathered_AsFinished(results, order) == [i \in 1..Len(results) |-> results[order[i]]]

\* asyncio.gather(*tasks): the results in the order of the tasks
Gathered(results, order) == [i \in 1..Len(results) |-> results[i]]

\* line 423: gather returns once every task is done
ExecutorReturns ==
    /\ t_pc = "running"
    /\ \A i \in 1..Len(requested) : t_result[i] # NoResult
    /\ t_pc' = "returned"
    /\ t_returned' = Gathered(t_result, t_order)
    /\ UNCHANGED <<requested, t_attempt, t_invoked, t_result, t_order,
                   hvars, avars, cvars, svars, stvars, wvars, log, now>>

\* the agent goes on to its next iteration
ExecutorReset ==
    /\ t_pc = "returned"
    /\ t_pc' = "idle"
    /\ requested' = <<>>
    /\ t_attempt' = <<>>
    /\ t_invoked' = <<>>
    /\ t_result' = <<>>
    /\ t_order' = <<>>
    /\ t_returned' = <<>>
    /\ UNCHANGED <<hvars, avars, cvars, svars, stvars, wvars, log, now>>

ToolsNext ==
    \/ \E calls \in RequestLists : ExecuteToolCalls(calls)
    \/ \E i \in TaskIds, behaviour \in Behaviours : Attempt(i, behaviour)
    \/ ExecutorReturns
    \/ ExecutorReset

(***************************************************************************)
(* BaseAgent.complete(message, chat_id, stream=False, save_to_history=True)*)
(* on an agent with a state service, called on a freshly constructed       *)
(* service.  A step is one awaited call of the loop: start_turn,           *)
(* get_chat_history, acompletion with the add_assistant_message that       *)
(* follows it, or one attempt of one tool-call task.  The service calls    *)
(* take and give back the chat's turn lock inside the step.  A storage     *)
(* call returns or raises within the budget of the attempt it is part of.  *)
(***************************************************************************)
\* the largest max_iterations the loop is called with
MaxIterations == 2

IterationInputs == 1..MaxIterations

\* what acompletion does: raises, returns a message with tool calls, or
\* returns a final message
LlmOutcomes == {"raises", "tool_calls", "final"}

\* how one attempt of _execute_tool_call can go: the arguments do not parse
\* (line 436), or one of Behaviours at the tool function (line 442)
AttemptOutcomes == Behaviours \cup {"bad_arguments"}

AgentIdle ==
    /\ a_pc = "idle"
    /\ a_turn = NoId
    /\ a_registered = NoId
    /\ a_iteration = 0
    /\ a_max = 0
    /\ a_outcome = "none"
    /\ t_bad = <<>>
    /\ t_audit = <<>>
    /\ t_fed = <<>>

\* what _execute_with_retry has produced: nothing yet, the value the
\* operation returned on its n-th invocation, or an exception
NoOutcome == [kind |-> "none", invocation |-> 0]

\* no _execute_with_retry call is being followed
RetryIdle ==
    /\ max_retries = 0
    /\ retry_pc = "idle"
    /\ attempt = 0
    /\ retry_seen = <<>>
    /\ retry_slept = 0
    /\ retry_result = NoOutcome

\* no start_turn call has been made
TurnsIdle ==
    /\ started = <<>>
    /\ raw_log = <<>>
    /\ read_limit = 0
    /\ read_status = "none"
    /\ read_result = <<>>
    /\ RetryIdle
    /\ llm_messages = <<>>

\* force_complete_turn(chat_id, turn_id) behind `if turn_id and ...`
\* (lines 349-350, 355-356, 365-369)
ForceCompleted(idx, t) ==
    IF t # NoId /\ t \in DOMAIN idx THEN [idx EXCEPT ![t] = ForcedMetadata(@)] ELSE idx

\* the coroutine is over: it returned `how`, or raised
Terminates(how) ==
    /\ a_pc' = "done"
    /\ a_outcome' = how

\* lines 187-214: start_turn, whose exception is logged and leaves turn_id None
Complete(max_iterations, ok) ==
    /\ a_pc = "idle"
    /\ a_outcome = "none"
    /\ active' = WithTurn(active, nextTurn, NewTurnMetadata(nextMsg))
    /\ nextTurn' = nextTurn + 1
    /\ nextMsg' = nextMsg + 1
    /\ log' = IF ok THEN Append(log, Message(nextMsg, nextTurn, "user", NoTool, <<>>)) ELSE log
    /\ a_turn' = IF ok THEN nextTurn ELSE NoId
    /\ a_registered' = nextTurn
    /\ a_iteration' = 0
    /\ a_max' = max_iterations
    /\ a_pc' = "history"
    /\ UNCHANGED <<a_outcome, t_bad, t_audit, t_fed, hvars, cvars, tvars, stvars, wvars, now,
                   turn_lock, cl_pc, cl_to_remove, ret, hist>>

\* lines 216-236 and 363-370: get_chat_history returns, or raises into the
\* outer handler
GetHistory(ok) ==
    /\ a_pc = "history"
    /\ IF ok
       THEN /\ a_pc' = "llm"
            /\ UNCHANGED <<a_outcome, active>>
       ELSE /\ Terminates("raise")
            /\ active' = ForceCompleted(active, a_turn)
    /\ UNCHANGED <<a_turn, a_registered, a_iteration, a_max, t_bad, t_audit, t_fed,
                   hvars, cvars, tvars, stvars, wvars, log, now,
                   nextTurn, nextMsg, turn_lock, cl_pc, cl_to_remove, ret, hist>>

\* add_assistant_message behind `if ... and turn_id` with its exception
\* logged (lines 288-299 and 324-335): the index after the call
AssistantSaved(idx, t, mid, tool_calls) ==
    IF t # NoId /\ t \in DOMAIN idx
    THEN [idx EXCEPT ![t] = AssistantMetadata(@, mid, tool_calls)]
    ELSE idx

\* one pass of the while loop up to the executor (lines 239-311, 319-352)
LlmResponds(outcome_, calls, ok) ==
    /\ a_pc = "llm"
    /\ a_iteration < a_max
    /\ LET saves == outcome_ # "raises" /\ a_turn # NoId /\ a_turn \in DOMAIN active
           tool_calls == IF outcome_ = "tool_calls" THEN calls ELSE <<>>
       IN  /\ outcome_ = "tool_calls" => calls # <<>>
           /\ outcome_ # "tool_calls" => calls = <<>>
           /\ outcome_ = "raises" => ok
           /\ ~saves => ok
           /\ active' = IF outcome_ = "raises"
                        THEN ForceCompleted(active, a_turn)
                        ELSE AssistantSaved(active, a_turn, nextMsg, tool_calls)
           /\ nextMsg' = IF saves THEN nextMsg + 1 ELSE nextMsg
           /\ log' = IF saves /\ ok
                     THEN Append(log, Message(nextMsg, a_turn, "assistant", NoTool, tool_calls))
                     ELSE log
           /\ CASE outcome_ = "raises" ->
                     /\ Terminates("raise")
                     /\ UNCHANGED <<tvars, t_bad, t_audit, t_fed>>
                [] outcome_ = "final" ->
                     /\ Terminates("reply")
                     /\ UNCHANGED <<tvars, t_bad, t_audit, t_fed>>
                [] outcome_ = "tool_calls" ->
                     /\ a_pc' = "tools"
                     /\ a_outcome' = a_outcome
                     /\ t_pc' = "running"
                     /\ requested' = calls
                     /\ t_attempt' = [i \in 1..Len(calls) |-> 0]
                     /\ t_invoked' = [i \in 1..Len(calls) |-> 0]
                     /\ t_result' = [i \in 1..Len(calls) |-> NoResult]
                     /\ t_order' = <<>>
                     /\ t_returned' = <<>>
                     /\ t_bad' = [i \in 1..Len(calls) |-> FALSE]
                     /\ t_audit' = [i \in 1..Len(calls) |-> "none"]
                     /\ t_fed' = [i \in 1..Len(calls) |-> "none"]
    /\ UNCHANGED <<a_turn, a_registered, a_iteration, a_max, hvars, cvars, stvars, wvars, now,
                   nextTurn, turn_lock, cl_pc, cl_to_remove, ret, hist>>

\* lines 354-361: the loop ran max_iterations times
MaxIterationsReached ==
    /\ a_pc = "llm"
    /\ a_iteration >= a_max
    /\ Terminates("limit")
    /\ active' = ForceCompleted(active, a_turn)
    /\ UNCHANGED <<a_turn, a_registered, a_iteration, a_max, t_bad, t_audit, t_fed,
                   hvars, cvars, tvars, stvars, wvars, log, now,
                   nextTurn, nextMsg, turn_lock, cl_pc, cl_to_remove, ret, hist>>

\* mutant: the tool function is called whatever the arguments are
Invokes_Always(behaviour) == TRUE

\* line 442 is reached: the arguments parsed and the function is known
Invokes(behaviour) == behaviour # "bad_arguments"

\* mutant: a failed audit write is raised into the handler of line 489
AfterAudit_Propagates(audit_ok) == IF audit_ok THEN "continue" ELSE "raise"

\* ChatStateManagerService.add_tool_call logs every exception of its body
\* (lines 591-593) and the agent logs what is left (lines 456-462)
AfterAudit(audit_ok) == "continue"

\* how _execute_tool_call leaves its try block
Leaves(behaviour, audit_ok) ==
    CASE behaviour = "bad_arguments" -> "error"
      [] behaviour = "raises"        -> "error"
      [] behaviour = "hangs"         -> "cancelled"
      [] behaviour = "returns"       ->
           IF AfterAudit(audit_ok) = "raise" THEN "error" ELSE "success"

\* the tool_result_msg of add_tool_result (lines 230-241); "" is error=None
ToolResultMessage(mid, t, c, error) ==
    IF error # ""
    THEN Message(mid, t, "tool", c, <<>>) @@ [error |-> error]
    ELSE Message(mid, t, "tool", c, <<>>)

\* storage.add_tool_call (the entry is skipped when its id is there already)
Audited(entries, c) ==
    IF \E i \in 1..Len(entries) : entries[i].tool_call_id = c
    THEN entries
    ELSE Append(entries, ToolCallEntry(c))

\* how an add_tool_result call goes (lines 213-243); ok is whether
\* storage.add_chat_message returned
ToolResultOutcome(idx, t, c, ok) ==
    IF t \notin DOMAIN idx \/ ~IsExpected(idx[t], c) THEN "rejected"
    ELSE IF ok THEN "written" ELSE "raised"

\* the str(e) handed to add_tool_result as error (line 501)
ErrorText(behaviour) ==
    IF behaviour = "bad_arguments" THEN "Expecting value" ELSE "failed"

\* one attempt of task i: wait_for(_execute_tool_call(...)) of lines 383-403
\* with the body of lines 433-516.  A tool that hangs is cancelled at line
\* 442 by wait_for; nothing after that line runs.
ExecuteToolCall(i, behaviour, audit_ok, result_ok) ==
    /\ a_pc = "tools"
    /\ t_pc = "running"
    /\ i \in 1..Len(requested)
    /\ t_result[i] = NoResult
    /\ behaviour = "bad_arguments" => t_invoked[i] = 0
    /\ LET c == requested[i]
           how == Leaves(behaviour, audit_ok)
           audits == behaviour = "returns"
           written == audits /\ audit_ok
           feeds == how # "cancelled" /\ a_turn # NoId
           fed == IF feeds THEN ToolResultOutcome(active, a_turn, c, result_ok) ELSE "none"
           error == IF how = "error" THEN ErrorText(behaviour) ELSE ""
           kept == IF written THEN Trimmed(log, ToolHistoryLimit) ELSE log
       IN  /\ ~audits => audit_ok
           /\ fed \notin {"written", "raised"} => result_ok
           /\ t_invoked' = [t_invoked EXCEPT ![i] = IF Invokes(behaviour) THEN @ + 1 ELSE @]
           /\ t_bad' = [t_bad EXCEPT ![i] = (behaviour = "bad_arguments")]
           /\ t_audit' = [t_audit EXCEPT ![i] =
                             IF ~audits THEN @ ELSE IF audit_ok THEN "written" ELSE "failed"]
           /\ tool_log' = IF written
                          THEN Trimmed(Audited(tool_log, c), ToolHistoryLimit)
                          ELSE tool_log
           /\ t_fed' = [t_fed EXCEPT ![i] = IF how = "cancelled" THEN @ ELSE fed]
           /\ log' = IF fed = "written"
                     THEN Append(kept, ToolResultMessage(nextMsg, a_turn, c, error))
                     ELSE kept
           /\ nextMsg' = IF fed = "written" THEN nextMsg + 1 ELSE nextMsg
           /\ active' = IF fed = "written"
                        THEN [active EXCEPT ![a_turn] = MarkIfComplete(TrackCompleted(@, c))]
                        ELSE active
           /\ IF how = "cancelled"
              THEN IF t_attempt[i] < RetryAttempts - 1
                   THEN /\ t_attempt' = [t_attempt EXCEPT ![i] = @ + 1]
                        /\ UNCHANGED <<t_result, t_order>>
                   ELSE Finishes(i, ToolResult(c, "timeout"))
              ELSE Finishes(i, ToolResult(c, how))
    /\ UNCHANGED <<t_pc, requested, t_returned,
                   a_pc, a_turn, a_registered, a_iteration, a_max, a_outcome,
                   hvars, cvars, stvars, state_doc, via, params, cur_state, landed, log_cut, now,
                   nextTurn, turn_lock, cl_pc, cl_to_remove, ret, hist>>

\* lines 313-317: the results go to llm_messages and the loop goes on
ResultsAppended ==
    /\ a_pc = "tools"
    /\ t_pc = "returned"
    /\ a_pc' = "llm"
    /\ a_iteration' = a_iteration + 1
    /\ t_pc' = "idle"
    /\ requested' = <<>>
    /\ t_attempt' = <<>>
    /\ t_invoked' = <<>>
    /\ t_result' = <<>>
    /\ t_order' = <<>>
    /\ t_returned' = <<>>
    /\ t_bad' = <<>>
    /\ t_audit' = <<>>
    /\ t_fed' = <<>>
    /\ UNCHANGED <<a_turn, a_registered, a_max, a_outcome,
                   hvars, cvars, svars, stvars, wvars, log, now>>

AgentNext ==
    \/ \E max_iterations \in IterationInputs, o \in 1..2 :
          Complete(max_iterations, StorageOutcomes[o])
    \/ \E o \in 1..2 : GetHistory(StorageOutcomes[o])
    \/ \E outcome_ \in LlmOutcomes, calls \in RequestLists, o \in 1..2 :
          LlmResponds(outcome_, calls, StorageOutcomes[o])
    \/ MaxIterationsReached
    \/ \E i \in TaskIds, behaviour \in AttemptOutcomes, a, r \in 1..2 :
          ExecuteToolCall(i, behaviour, StorageOutcomes[a], StorageOutcomes[r])
    \/ ExecutorReturns
    \/ ResultsAppended

(***************************************************************************)
(* ChatStateManagerService.add_tool_call on a chat whose message log is    *)
(* shorter than, as long as, or longer than the tool-history limit.        *)
(* Nothing trims the message log when messages are appended, so it grows   *)
(* with the conversation.                                                  *)
(***************************************************************************)
\* how far beyond the tool-history limit the message logs go
MaxOver == 2

LogLengths == {0, 1} \cup (ToolHistoryLimit - 1)..(ToolHistoryLimit + MaxOver)

\* a message log of n entries appended one after the other
LogOfLength(n) == [i \in 1..n |-> StorageMessage(i, "x", i)]

AuditInit ==
    /\ StorageIdle /\ WritesIdle /\ HistoryIdle /\ ToolsIdle /\ AgentIdle /\ TurnsIdle
    /\ active = <<>>
    /\ log \in {LogOfLength(n) : n \in LogLengths}
    /\ nextTurn = 1
    /\ nextMsg = 1
    /\ now = 0
    /\ turn_lock = "free"
    /\ cl_pc = "idle"
    /\ cl_to_remove = <<>>
    /\ ret = [op |-> "none", turn |-> NoId, id |-> NoTool, result |-> "none"]
    /\ hist = <<>>

AuditNext ==
    \/ \E p \in Callers, c \in ToolIds : CallAddToolCall(p, c)
    \/ \E p \in Callers, limit \in TrimLimits : CallTrimHistory(p, limit)
    \/ \E p \in Callers : Acquire(p)
    \/ \E p \in Callers : AcquireTimeout(p)
    \/ \E p \in Callers, o \in 1..2 : ToolCallCheck(p, StorageOutcomes[o])
    \/ \E p \in Callers, o \in 1..2 : ToolCallPush(p, StorageOutcomes[o])
    \/ \E p \in Callers, o \in 1..2 : Trim(p, StorageOutcomes[o])
    \/ \E p \in Callers : Release(p)
    \/ \E k \in LockNames : LeaseExpires(k)

(***************************************************************************)
(* The operations that write a chat's state document, on a chat that has   *)
(* no document yet or one that earlier updates have stored.                *)
(***************************************************************************)
\* no document, the one get_chat_state creates, and the one a later
\* update_chat_state stores
StoredDocs ==
    {NoDoc, Stored(DefaultDoc), Stored(Merged(Stored(DefaultDoc), "user_preferences"))}

StateInit ==
    /\ ServiceInit /\ StorageIdle /\ HistoryIdle /\ ToolsIdle /\ AgentIdle /\ TurnsIdle
    /\ tool_log = <<>>
    /\ state_doc \in StoredDocs
    /\ via = [p \in Callers |-> "none"]
    /\ params = [p \in Callers |-> NoParams]
    /\ cur_state = [p \in Callers |-> NoDoc]
    /\ landed = {}
    /\ log_cut = FALSE

StateNext ==
    \/ \E p \in Callers, key \in PatchKeys : CallUpdateChatState(p, key)
    \/ \E p \in Callers : CallClearChatData(p)
    \/ \E p \in Callers, operations \in OperationLists : CallAtomicTurnOperation(p, operations)
    \/ \E p \in Callers, o \in 1..2 : GetState(p, StorageOutcomes[o])
    \/ \E p \in Callers, o \in 1..2 : CreateState(p, StorageOutcomes[o])
    \/ \E p \in Callers, o \in 1..2 : SetState(p, StorageOutcomes[o])
    \/ \E p \in Callers, o \in 1..2 : Pipeline(p, StorageOutcomes[o])
    \/ \E p \in Callers, o \in 1..2 : Trim(p, StorageOutcomes[o])
    \/ \E p \in Callers : Acquire(p)
    \/ \E p \in Callers : AcquireTimeout(p)
    \/ \E p \in Callers : Release(p)
    \/ \E k \in LockNames : LeaseExpires(k)

(***************************************************************************)
(* start_turn called by several requests of one chat.  The whole body runs *)
(* under the chat's turn lock; its storage.add_chat_message call is the    *)
(* RedisStorage operation above.  Writers of other processes call          *)
(* add_chat_message on the same chat meanwhile.                            *)
(***************************************************************************)
\* lines 127-150 up to the first await inside storage.add_chat_message
CallStartTurn(p) ==
    /\ pc[p] = "idle"
    /\ turn_lock = "free"
    /\ nextToken <= MaxCalls
    /\ turn_lock' = "request"
    /\ active' = WithTurn(active, nextTurn, NewTurnMetadata(FreshMessageId))
    /\ nextTurn' = nextTurn + 1
    /\ started' = Append(started, [caller |-> p, turn_id |-> nextTurn,
                                   user_message_id |-> FreshMessageId])
    /\ Enters(p, "add_chat_message", nextToken)
    /\ via' = [via EXCEPT ![p] = "start_turn"]
    /\ arg' = [arg EXCEPT ![p] = [StorageMessage(FreshMessageId, "x", now)
                                    EXCEPT !.turn_id = nextTurn]]
    /\ nextToken' = nextToken + 1
    /\ outcome' = [outcome EXCEPT ![p] = "pending"]
    /\ release_saw' = [release_saw EXCEPT ![p] = "none"]
    /\ UNCHANGED <<lock_key, msg_counter, lease_expired_inside, log, now, hvars, tvars, avars,
                   rvars, xvars, llm_messages, tool_log, state_doc, params, cur_state, landed, log_cut,
                   nextMsg, cl_pc, cl_to_remove, ret, hist>>

TurnsNext ==
    \/ \E p \in Callers : CallStartTurn(p)
    \/ \E p \in Callers, m \in WriteMessages : CallAddChatMessage(p, m)
    \/ \E p \in Callers : Acquire(p)
    \/ \E p \in Callers : AcquireTimeout(p)
    \/ \E p \in Callers, o \in 1..2 : CheckDuplicate(p, StorageOutcomes[o])
    \/ \E p \in Callers, o \in 1..2 : Push(p, StorageOutcomes[o])
    \/ \E p \in Callers : Release(p)
    \/ \E k \in LockNames : LeaseExpires(k)

Init == ServiceInit /\ StorageIdle /\ WritesIdle /\ HistoryIdle /\ ToolsIdle /\ AgentIdle /\ TurnsIdle

\* a list and a k_turns for the passes of get_chat_history
HistoryInit ==
    /\ ServiceInit /\ StorageIdle /\ WritesIdle /\ ToolsIdle /\ AgentIdle /\ TurnsIdle
    /\ messages \in MessageLists
    /\ k_turns \in KInputs
    /\ repaired = <<>>
    /\ repaired_again = <<>>
    /\ window = <<>>
    /\ passes_run = {}
    /\ h_limit = 0
    /\ view = <<>>

Next == ServiceNext

Spec == Init /\ [][Next]_vars

StorageSpec == Init /\ [][StorageNext]_vars

WritesSpec == Init /\ [][WritesNext]_vars

LockingSpec == Init /\ [][LockingNext]_vars

HistorySpec == HistoryInit /\ [][HistoryNext]_vars

ToolsSpec == Init /\ [][ToolsNext]_vars

AgentSpec == Init /\ [][AgentNext]_vars

AuditSpec == AuditInit /\ [][AuditNext]_vars

StateSpec == StateInit /\ [][StateNext]_vars

TurnsSpec == Init /\ [][TurnsNext]_vars

(***************************************************************************)
(* Properties of the turn lifecycle manager.                               *)
(***************************************************************************)
\* a step in which a call on the service was made and had an effect or a
\* different outcome than the call before it
CallStep == ret' # ret \/ nextMsg' # nextMsg \/ active' # active

ToolMessagesFor(t, c) ==
    {i \in 1..Len(log) : log[i].role = "tool" /\ log[i].turn_id = t /\ log[i].tool_call_id = c}

\* C1: while a turn's expected set stays as its one assistant message set it,
\* add_tool_result returns true exactly at the call that makes the completed
\* set equal to the expected set, false at every other call, and is_complete
\* stays true once it is.
C1_TrueExactlyOnce ==
    [][\A t \in DOMAIN active :
          (ret'.op = "add_tool_result" /\ ret'.turn = t /\ CallStep /\ hist[t].replies <= 1)
          => /\ (ret'.result = "true")
                  <=> (~AllResultsIn(active[t]) /\ AllResultsIn(active'[t]))
             /\ active[t].is_complete => active'[t].is_complete]_vars

\* C2: each turn's completed_tool_results is a subset of its expected tool_call_ids.
C2_CompletedSubsetExpected ==
    \A t \in DOMAIN active :
        Range(active[t].completed_tool_results) \subseteq Range(active[t].tool_call_ids)

\* C3: a turn is complete iff its latest assistant reply carried no tool calls,
\* or its completed set equals the expected set its latest reply announced,
\* or it was force-completed.
C3_CompleteIff ==
    \A t \in DOMAIN active :
        active[t].is_complete
          <=> \/ hist[t].replies > 0 /\ ~hist[t].last_had_tools
              \/ hist[t].replies > 0 /\ hist[t].last_had_tools /\ AllResultsIn(active[t])
              \/ hist[t].forced

\* C4: add_tool_result with an unknown turn id or with a tool-call id that is
\* not in the turn's expected list returns false and changes neither the turn
\* index nor the persisted log.
C4_UnexpectedIdRejected ==
    [][\A t \in TurnIds, c \in ToolIds :
          (/\ ret'.op = "add_tool_result" /\ ret'.turn = t /\ ret'.id = c
           /\ (t \notin DOMAIN active \/ ~InList(c, active[t].tool_call_ids)))
          => (ret'.result = "false" /\ active' = active /\ log' = log)]_vars

\* C4 witness: a call with an id outside a non-empty expected list has returned false.
C4_Witness ==
    /\ ret.op = "add_tool_result"
    /\ ret.result = "false"
    /\ ret.turn \in DOMAIN active
    /\ active[ret.turn].tool_call_ids # <<>>
    /\ ~InList(ret.id, active[ret.turn].tool_call_ids)
    /\ Len(log) >= 2

\* C5: the log never holds two tool messages for the same tool-call id of a
\* turn, and a delivery for an id already in the completed set does not
\* return true and changes nothing.
C5_NoDuplicateDelivery ==
    /\ [](\A t \in TurnIds, c \in ToolIds : Cardinality(ToolMessagesFor(t, c)) <= 1)
    /\ [][\A t \in DOMAIN active :
            (/\ ret'.op = "add_tool_result" /\ ret'.turn = t /\ CallStep
             /\ InList(ret'.id, active[t].completed_tool_results))
            => (ret'.result # "true" /\ active' = active /\ log' = log)]_vars

\* C6: add_assistant_message on a turn that was never started or that has
\* already completed fails with turn-not-found, appends no message and changes
\* no turn metadata.
C6_CompletedTurnNotFound ==
    [][\A t \in TurnIds :
          (/\ ret'.op = "add_assistant_message" /\ ret'.turn = t /\ CallStep
           /\ (t \notin DOMAIN active \/ active[t].is_complete))
          => (ret'.result = "raise_not_found" /\ active' = active /\ log' = log)]_vars

\* C7: cleanup_active_turns always returns and releases the chat's lock: while
\* it is running its next step can be taken, and once it is done the lock is
\* free and no turn it found older than max_age is left in the index.
C7_CleanupTerminates ==
    /\ cl_pc # "idle" => ENABLED CleanupStep
    /\ cl_pc = "idle" => (turn_lock = "free" /\ cl_to_remove = <<>>)

\* C8 as stated: force_complete_turn on a turn of the index returns true, sets
\* is_complete, leaves the id lists and the log unchanged, and a second call
\* leaves the whole state as it was after the first; on an unknown turn it
\* returns false and changes nothing.
C8_ForceCompleteIdempotent ==
    [][\A t \in TurnIds :
          (ret'.op = "force_complete_turn" /\ ret'.turn = t)
          => IF t \in DOMAIN active
             THEN /\ ret'.result = "true"
                  /\ active'[t].is_complete
                  /\ hist[t].forced => (active' = active /\ log' = log)
             ELSE ret'.result = "false" /\ active' = active /\ log' = log]_vars

\* C8 amended: as C8, but a second call refreshes the turn's completed_at to
\* the time of that call and leaves everything else as after the first.
C8_ForceComplete ==
    [][\A t \in TurnIds :
          (ret'.op = "force_complete_turn" /\ ret'.turn = t)
          => IF t \in DOMAIN active
             THEN /\ ret'.result = "true"
                  /\ log' = log
                  /\ active' = [active EXCEPT ![t].is_complete = TRUE,
                                              ![t].completed_at = active'[t].completed_at]
                  /\ active'[t].completed_at \in {active[t].completed_at, now}
                  /\ hist[t].forced =>
                        active' = [active EXCEPT ![t].completed_at = active'[t].completed_at]
             ELSE ret'.result = "false" /\ active' = active /\ log' = log]_vars

\* C8 witness: a turn with an outstanding tool call has been force-completed.
C8_Witness ==
    /\ ret.op = "force_complete_turn"
    /\ ret.result = "true"
    /\ ret.turn \in DOMAIN active
    /\ active[ret.turn].is_complete
    /\ hist[ret.turn].forced
    /\ ~AllResultsIn(active[ret.turn])

(***************************************************************************)
(* Properties of RedisStorage.add_chat_message.                            *)
(***************************************************************************)
EntriesWithId(mid) == {i \in 1..Len(log) : log[i].message_id = mid}

OneEntryPerId == \A i, j \in 1..Len(log) : log[i].message_id = log[j].message_id => i = j

\* the step leaves the log alone or appends one entry whose id is new to it
AppendsNewIdOrNothing ==
    \/ log' = log
    \/ /\ Len(log') = Len(log) + 1
       /\ SubSeq(log', 1, Len(log)) = log
       /\ EntriesWithId(log'[Len(log')].message_id) = {}

C10_MutualExclusion == Cardinality({p \in Callers : InSection(p)}) <= 1

\* C10 amended: at most one caller whose lease has not expired is inside the
\* lock-guarded section.
C10_MutualExclusionUnderLease ==
    Cardinality({p \in Callers : InSection(p) /\ ~lease_lost[p]}) <= 1

\* C10 witness: one caller is inside under its lease while another has been
\* refused the key and waits.
C10_Witness ==
    \E p, q \in Callers :
        /\ p # q
        /\ InSection(p) /\ ~lease_lost[p] /\ lock_key["chat_write"] = token[p]
        /\ pc[q] = "acquire" /\ tried[q]

\* C11: a release deletes the lock key only when the key holds the releasing
\* caller's own identifier, also after that caller's lease expired and another
\* caller took the key; a caller whose acquire failed changes no key.
C11_ReleaseOwnKeyOnly ==
    [][\A p \in Callers :
          /\ (pc[p] = "release" /\ pc'[p] # "release")
               => \A k \in LockNames :
                     lock_key'[k] # lock_key[k]
                       => /\ k = LockName(op[p])
                          /\ acquired[p]
                          /\ lock_key[k] = token[p]
                          /\ lock_key'[k] = NoToken
          /\ (pc[p] = "acquire" /\ pc'[p] = "idle") => lock_key' = lock_key]_vars

\* C11 witness: a caller whose lease had expired has released while another
\* caller held the key, and that caller still holds it.
C11_Witness ==
    \E p, q \in Callers :
        /\ p # q
        /\ release_saw[p] = "other"
        /\ pc[p] = "idle"
        /\ InSection(q) /\ ~lease_lost[q] /\ lock_key["chat_write"] = token[q]

(***************************************************************************)
(* Properties of the writers of a chat's durable data.                     *)
(***************************************************************************)
\* C12: no two callers whose leases are alive are inside the lock-guarded
\* sections of add_chat_message, add_tool_call, trim_history and
\* atomic_turn_operation of one chat at the same time.
C12_WritersExclusive ==
    \A p, q \in Callers :
        (p # q /\ InSection(p) /\ InSection(q)) => (lease_lost[p] \/ lease_lost[q])

\* the caller holds the chat's in-process lock
HoldsTurnLock(p) == turn_lock = "request" /\ via[p] \in TurnOps

\* C13: every step of a service operation that changes the message log, the
\* tool-call log or the state document is taken by a caller that holds the
\* chat's in-process lock and is inside a section guarded by the chat's
\* distributed lock.
C13_WritesUnderBothLocks ==
    [][\A p \in Callers :
          (/\ pc'[p] # pc[p]
           /\ (log' # log \/ tool_log' # tool_log \/ state_doc' # state_doc))
          => (HoldsTurnLock(p) /\ acquired[p] /\ InSection(p))]_vars

\* mutant: the entries as they lie in the list
SortByTimestamp_Unsorted(entries) == entries

\* list.sort(key=lambda x: x.get("timestamp", "")): a stable sort
RECURSIVE SortByTimestamp(_)
SortByTimestamp(entries) ==
    IF entries = <<>> THEN <<>>
    ELSE LET sorted == SortByTimestamp(SubSeq(entries, 1, Len(entries) - 1))
             last == entries[Len(entries)]
             before == {i \in 1..Len(sorted) : sorted[i].timestamp <= last.timestamp}
             n == Cardinality(before)
         IN SubSeq(sorted, 1, n) \o <<last>> \o SubSeq(sorted, n + 1, Len(sorted))

\* RedisStorage.get_chat_history(chat_id, limit): LRANGE -limit -1, then sort
GetChatHistory(entries, limit) == SortByTimestamp(LastN(entries, limit))

\* C14: every message whose add_chat_message call has returned, while no trim
\* has cut the message log, is in the log, and a history read returns it in a
\* list ordered by timestamp.
C14_BothLandInOrder ==
    LET history == GetChatHistory(log, ChatHistoryLimit) IN
      /\ \A mid \in landed :
            /\ \E i \in 1..Len(log) : log[i].message_id = mid
            /\ \E i \in 1..Len(history) : history[i].message_id = mid
      /\ \A i, j \in 1..Len(history) :
            i < j => history[i].timestamp <= history[j].timestamp

\* C14 witness: two calls with distinct ids have returned, the later one with
\* the earlier timestamp, and a trim with a limit above the log length has run.
C14_Witness ==
    /\ landed = {1, 2}
    /\ Len(log) = 2
    /\ log[1].timestamp > log[2].timestamp
    /\ \E p \in Callers : /\ pc[p] = "release" /\ op[p] = "trim_history"
                          /\ outcome[p] = "added" /\ params[p].limit > Len(log)

(***************************************************************************)
(* Properties of the passes of get_chat_history.                           *)
(***************************************************************************)
\* C15: the validation pass applied to its own output returns that output.
C15_RepairIdempotent ==
    "validate_again" \in passes_run => repaired_again = repaired

\* the list is one assistant message announcing tool calls, then tool results
\* for some but not all of the announced ids, each at most once, up to position n
PartlyResolved(msgs, n) ==
    /\ n >= 1 /\ n <= Len(msgs)
    /\ msgs[1].role = "assistant" /\ msgs[1].tool_calls # <<>>
    /\ \A i \in 2..n : /\ msgs[i].role = "tool"
                       /\ InList(msgs[i].tool_call_id, msgs[1].tool_calls)
                       /\ \A j \in 2..n : msgs[j].tool_call_id = msgs[i].tool_call_id => i = j
    /\ {msgs[i].tool_call_id : i \in 2..n} # Range(msgs[1].tool_calls)

\* C16: a list that ends while tool calls of its assistant message are still
\* pending comes out of the validation pass empty: the assistant message and
\* the tool results accepted for it are dropped.
C16_TrailingPendingDropped ==
    ("validate" \in passes_run /\ PartlyResolved(messages, Len(messages)))
       => repaired = <<>>

\* C17: when a user message follows an assistant message whose tool calls are
\* still pending, the pass drops the assistant message and the tool results
\* accepted for it and keeps the user message.
C17_UserWhilePendingDropsPartial ==
    (/\ "validate" \in passes_run
     /\ Len(messages) >= 2
     /\ PartlyResolved(messages, Len(messages) - 1)
     /\ messages[Len(messages)].role = "user")
       => repaired = <<messages[Len(messages)]>>

\* positions of the user messages of a list
UserPositions(msgs) == {i \in 1..Len(msgs) : msgs[i].role = "user"}

\* the messages of the last min(k, n) turns of a list with n turns: the list
\* from the user message that opens the first of these turns on
LastTurns(msgs, k) ==
    LET users == UserPositions(msgs)
        m == IF k < Cardinality(users) THEN k ELSE Cardinality(users)
    IN IF m = 0 THEN <<>>
       ELSE LET first == CHOOSE i \in users : Cardinality({j \in users : j >= i}) = m
            IN SubSeq(msgs, first, Len(msgs))

C19_RaisedIsRetried ==
    \A i \in 1..Len(requested) :
        (t_result[i] # NoResult /\ t_result[i].kind # "success")
           => t_invoked[i] = RetryAttempts

\* C20: the executor returns only when every task is finished, and the list
\* it returns holds one role=tool message per requested call, the i-th
\* carrying the id of the i-th request.
C20_OneResultPerCallInOrder ==
    t_pc = "returned"
       => /\ \A i \in 1..Len(requested) : t_result[i] # NoResult
          /\ Len(t_returned) = Len(requested)
          /\ \A i \in 1..Len(requested) :
                /\ t_returned[i].role = "tool"
                /\ t_returned[i].tool_call_id = requested[i]

\* C20 witness: two calls were requested, the second finished first, one of
\* them by exhausting its retries, and the executor has returned.
C20_Witness ==
    /\ t_pc = "returned"
    /\ Len(requested) = 2
    /\ t_order = <<2, 1>>
    /\ \E i \in 1..2 : t_returned[i].kind = "timeout"
    /\ \E i \in 1..2 : t_returned[i].kind = "error"

(***************************************************************************)
(* Properties of the conversation loop and its tool calls (AgentSpec).     *)
(***************************************************************************)
\* the log holds a role=tool message of turn t for call c
ToolMessageInLog(t, c) ==
    \E k \in 1..Len(log) :
        log[k].role = "tool" /\ log[k].turn_id = t /\ log[k].tool_call_id = c

\* C21: when the executor has returned and no storage write of the step
\* failed, every requested call the turn expected has a tool message in the
\* persisted log and its id in the turn's completed set, and the turn is
\* complete.
C21_ResultsFedBack ==
    (/\ a_pc = "tools" /\ t_pc = "returned"
     /\ a_turn # NoId /\ a_turn \in DOMAIN active
     /\ \A i \in 1..Len(requested) : t_fed[i] # "raised")
    => /\ \A i \in 1..Len(requested) :
             IsExpected(active[a_turn], requested[i])
                => /\ ToolMessageInLog(a_turn, requested[i])
                   /\ InList(requested[i], active[a_turn].completed_tool_results)
       /\ active[a_turn].is_complete

\* C22: a call whose arguments do not parse ends at its first attempt with
\* the tool function never invoked and with the result an execution error
\* gives; add_tool_result is called for it on the turn, and the message that
\* call writes carries an error field.
C22_BadArgumentsTerminal ==
    \A i \in 1..Len(t_bad) :
        t_bad[i]
           => /\ t_invoked[i] = 0
              /\ t_attempt[i] = 0
              /\ t_result[i] = ToolResult(requested[i], Leaves("raises", TRUE))
              /\ a_turn # NoId => t_fed[i] # "none"
              /\ t_fed[i] = "written"
                    => \E k \in 1..Len(log) :
                          /\ log[k].role = "tool" /\ log[k].turn_id = a_turn
                          /\ log[k].tool_call_id = requested[i]
                          /\ "error" \in DOMAIN log[k]

\* C22 witness: of two requested calls one had unparsable arguments, its
\* error was written to the turn, and the executor has returned.
C22_Witness ==
    /\ t_pc = "returned" /\ Len(requested) = 2
    /\ \E i \in 1..Len(t_bad) :
          /\ t_bad[i] /\ t_fed[i] = "written"
          /\ t_returned[i] = ToolResult(requested[i], "error")
          /\ \E j \in 1..Len(t_bad) : j # i /\ t_result[j].kind = "success"

C25_NoTurnLeftOpen ==
    (a_pc = "done" /\ a_registered \in DOMAIN active)
       => active[a_registered].is_complete

(***************************************************************************)
(* Properties of the audit log (AuditSpec).                                *)
(***************************************************************************)
\* C24: no step of an add_tool_call call changes the chat's message log.
C24_AuditLeavesMessageLog ==
    [][\A p \in Callers :
          (via[p] = "add_tool_call" /\ pc'[p] # pc[p]) => log' = log]_vars

(***************************************************************************)
(* Properties of the persisted message log (Spec).                         *)
(***************************************************************************)
\* C26: every tool message of the log is preceded in the log by an
\* assistant message of the same turn whose tool calls hold its id.
C26_ToolMessagesAnnounced ==
    \A k \in 1..Len(log) :
        log[k].role = "tool"
           => \E j \in 1..(k - 1) :
                 /\ log[j].role = "assistant"
                 /\ log[j].turn_id = log[k].turn_id
                 /\ InList(log[k].tool_call_id, log[j].tool_calls)

(***************************************************************************)
(* Properties of the state document (StateSpec).                           *)
(***************************************************************************)
\* C27: no step lowers the version of the stored state document, and the
\* write that completes an update_chat_state call raises it.
C27_VersionMonotonic ==
    [][/\ state_doc'.version >= state_doc.version
       /\ \A p \in Callers :
             (/\ via[p] = "update_chat_state" /\ pc[p] = "set_state"
              /\ outcome'[p] = "added")
                => state_doc'.version > state_doc.version]_vars

(***************************************************************************)
(* Properties of concurrent start_turn calls (TurnsSpec).                  *)
(***************************************************************************)
\* the entries of the log that carry message id mid
LogEntriesWithId(mid) == {k \in 1..Len(log) : log[k].message_id = mid}

\* C28: the start_turn calls made so far have pairwise distinct turn ids and
\* user-message ids; each of their turns is in the index with no expected
\* and no completed tool calls and is_complete false; the user message of a
\* call is in the log at most once, and exactly once when its storage write
\* has returned; and no step changes or removes a turn that is in the index.
C28_IndependentTurns ==
    /\ [](/\ \A a, b \in 1..Len(started) :
                a # b => /\ started[a].turn_id # started[b].turn_id
                         /\ started[a].user_message_id # started[b].user_message_id
          /\ \A a \in 1..Len(started) :
                LET t == started[a].turn_id
                    mid == started[a].user_message_id
                IN  /\ t \in DOMAIN active
                    /\ active[t].user_message_id = mid
                    /\ active[t].tool_call_ids = <<>>
                    /\ active[t].completed_tool_results = <<>>
                    /\ ~active[t].is_complete
                    /\ Cardinality(LogEntriesWithId(mid)) <= 1
                    /\ mid \in landed => Cardinality(LogEntriesWithId(mid)) = 1
                    /\ \A k \in LogEntriesWithId(mid) :
                          log[k].turn_id = t /\ log[k].role = "user")
    /\ [][\A t \in DOMAIN active : t \in DOMAIN active' /\ active'[t] = active[t]]_vars

\* C28 witness: three start_turn calls were made by two callers, one waiting
\* for the turn lock while the other was inside; all three have returned and
\* their user messages are in the log.
C28_Witness ==
    /\ Len(started) = 3
    /\ \E a, b \in 1..Len(started) : started[a].caller # started[b].caller
    /\ \A a \in 1..Len(started) : started[a].user_message_id \in landed
    /\ Len(log) = 3
    /\ \A p \in Callers : pc[p] = "idle"

(***************************************************************************)
(* RedisStorage.get_chat_history over the stored bytes of the list.        *)
(* add_chat_message stores json.dumps of a dict; an entry damaged in the   *)
(* store is text json.loads rejects or bytes that are not UTF-8.           *)
(***************************************************************************)
\* the longest stored list
MaxRaw == 3
\* the largest limit a read is made with
MaxReadLimit == 2

EntryKinds == {"json", "invalid_json", "invalid_utf8"}

\* the i-th entry of a stored list and the dict it was dumped from
RawEntry(kind, i, ts) == [bytes |-> kind, message |-> StorageMessage(i, "x", ts)]

RawLists ==
    UNION {{[i \in 1..n |-> RawEntry(f[i][1], i, f[i][2])] :
               f \in [1..n -> EntryKinds \X {0, 1}]} : n \in 0..MaxRaw}

ReadLimits == 0..MaxReadLimit

\* msg_data.decode() returns (line 236); it raises UnicodeDecodeError otherwise
Decodes(entry) == entry.bytes # "invalid_utf8"

\* json.loads returns (line 236); it raises JSONDecodeError otherwise
Loads(entry) == entry.bytes = "json"

\* lines 234-241: the messages of the entries that load, in list order
ParsedMessages(entries) ==
    LET Test(entry) == Loads(entry)
        kept == SelectSeq(entries, Test)
    IN  [i \in 1..Len(kept) |-> kept[i].message]

\* lines 222-250: an exception other than JSONDecodeError leaves the loop
\* for the handler of line 248, which raises StateServiceException
StorageGetChatHistory(entries, limit) ==
    LET tail == LastN(entries, IF limit # 0 THEN limit ELSE ChatHistoryLimit)
    IN  IF \E i \in 1..Len(tail) : ~Decodes(tail[i])
        THEN [status |-> "raised", messages |-> <<>>]
        ELSE [status |-> "returned", messages |-> SortByTimestamp(ParsedMessages(tail))]

ReadInit ==
    /\ ServiceInit /\ StorageIdle /\ WritesIdle /\ HistoryIdle /\ ToolsIdle /\ AgentIdle
    /\ started = <<>>
    /\ RetryIdle
    /\ llm_messages = <<>>
    /\ raw_log \in RawLists
    /\ read_limit \in ReadLimits
    /\ read_status = "none"
    /\ read_result = <<>>

StorageRead ==
    /\ read_status = "none"
    /\ LET out == StorageGetChatHistory(raw_log, read_limit)
       IN  /\ read_status' = out.status
           /\ read_result' = out.messages
    /\ UNCHANGED <<raw_log, read_limit, started, xvars, llm_messages, hvars, tvars, avars,
                   svars, stvars, wvars, log, now>>

ReadNext == StorageRead

ReadSpec == ReadInit /\ [][ReadNext]_vars

\* the entries a read with this limit is about
RequestedTail == LastN(raw_log, IF read_limit # 0 THEN read_limit ELSE ChatHistoryLimit)

\* C29: a storage history read returns; the list it returns holds the
\* message of every parseable entry of the requested tail once and nothing
\* else, in timestamp order.
C29_ReadSkipsUnparsable ==
    read_status # "none"
       => /\ read_status = "returned"
          /\ \A i \in 1..Len(RequestedTail) :
                RequestedTail[i].bytes = "json"
                   => Cardinality({j \in 1..Len(read_result) :
                                      read_result[j] = RequestedTail[i].message}) = 1
          /\ \A j \in 1..Len(read_result) :
                \E i \in 1..Len(RequestedTail) :
                   /\ RequestedTail[i].bytes = "json"
                   /\ read_result[j] = RequestedTail[i].message
          /\ \A i, j \in 1..Len(read_result) :
                i < j => read_result[i].timestamp <= read_result[j].timestamp

(***************************************************************************)
(* ChatStateManagerService.get_chat_history(chat_id, limit, k_turns) with  *)
(* include_tool_calls true, over every short persisted log.                *)
(***************************************************************************)
\* the largest limit argument
MaxLimit == 2

\* 0 is limit=None
LimitInputs == 0..MaxLimit

\* k_turns=None
NoK == -1

\* lines 421-453 for a log of parseable entries
GetChatHistoryWithToolCalls(entries, limit, k) ==
    LET raw_limit == IF limit # 0 THEN limit ELSE ChatHistoryLimit
        raw_history == GetChatHistory(entries, raw_limit * 2)
        sorted_history == SortByTimestamp(raw_history)
        repaired_history == ValidateAndRepairToolCalls(sorted_history)
        final_history == IF k # NoK
                         THEN ExtractTurnsFromMessages(repaired_history, k)
                         ELSE repaired_history
    IN  IF raw_history = <<>> THEN <<>>
        ELSE IF limit # 0 /\ Len(final_history) > limit
             THEN LastN(final_history, limit)
             ELSE final_history

ViewInit ==
    /\ ServiceInit /\ StorageIdle /\ WritesIdle /\ ToolsIdle /\ AgentIdle /\ TurnsIdle
    /\ messages \in MessageLists
    /\ k_turns \in KInputs \cup {NoK}
    /\ h_limit \in LimitInputs
    /\ repaired = <<>>
    /\ repaired_again = <<>>
    /\ window = <<>>
    /\ passes_run = {}
    /\ view = <<>>

GetView ==
    /\ "view" \notin passes_run
    /\ view' = GetChatHistoryWithToolCalls(messages, h_limit, k_turns)
    /\ passes_run' = passes_run \cup {"view"}
    /\ UNCHANGED <<messages, k_turns, repaired, repaired_again, window, h_limit,
                   tvars, avars, cvars, svars, stvars, wvars, log, now>>

ViewNext == GetView

ViewSpec == ViewInit /\ [][ViewNext]_vars

\* C30: in the list get_chat_history returns, every tool message comes after
\* an assistant message that announces its id, and every call an assistant
\* message announces has its tool message later in the list with no user
\* message in between.
C30_ViewStructurallyValid ==
    "view" \in passes_run
       => /\ \A i \in 1..Len(view) :
                view[i].role = "tool"
                   => \E j \in 1..(i - 1) :
                         /\ view[j].role = "assistant"
                         /\ InList(view[i].tool_call_id, view[j].tool_calls)
          /\ \A j \in 1..Len(view) :
                view[j].role = "assistant"
                   => \A c \in Range(view[j].tool_calls) :
                         \E i \in (j + 1)..Len(view) :
                            /\ view[i].role = "tool" /\ view[i].tool_call_id = c
                            /\ \A u \in (j + 1)..(i - 1) : view[u].role # "user"

(***************************************************************************)
(* Which tool messages the validation pass keeps.                          *)
(***************************************************************************)
\* the ids that are announced and neither resolved nor cleared when the
\* message at position i of the list is visited
RECURSIVE PendingWhenVisited(_, _)
PendingWhenVisited(msgs, i) ==
    IF i <= 1 THEN {}
    ELSE LET before == PendingWhenVisited(msgs, i - 1)
             m == msgs[i - 1]
         IN  IF m.role = "assistant" /\ m.tool_calls # <<>>
             THEN before \cup Range(m.tool_calls)
             ELSE IF m.role = "tool" THEN before \ {m.tool_call_id}
             ELSE IF m.role = "user" THEN {}
             ELSE before

\* C31: the validation pass keeps a tool message exactly when its
\* tool_call_id is pending at the moment it is visited, that is announced by
\* an earlier assistant message and neither resolved by an earlier kept tool
\* message nor cleared by a user message; so of two tool messages for one
\* announcement the second is dropped.
C31_ToolKeptIffPending ==
    "validate" \in passes_run
       => \A i \in 1..Len(messages) :
             messages[i].role = "tool"
                => (InList(messages[i], repaired)
                      <=> messages[i].tool_call_id \in PendingWhenVisited(messages, i))

\* a list with two tool messages for one announced call has been validated:
\* the first is kept and the second is dropped
C31_Witness ==
    /\ "validate" \in passes_run
    /\ \E i, j \in 1..Len(messages) :
          /\ i < j
          /\ messages[i].role = "tool" /\ messages[j].role = "tool"
          /\ messages[i].tool_call_id = messages[j].tool_call_id
          /\ messages[i].tool_call_id \in PendingWhenVisited(messages, i)
          /\ InList(messages[i], repaired)
          /\ ~InList(messages[j], repaired)

\* C32: for every k >= 0 the windowing pass returns at most k user messages;
\* for k = 0 it returns the empty list.
C32_AtMostKUserMessages ==
    ("extract" \in passes_run /\ k_turns >= 0)
       => /\ Cardinality(UserPositions(window)) <= k_turns
          /\ k_turns = 0 => window = <<>>

MaxMaxRetries == 4

MaxRetriesInputs == 0..MaxMaxRetries

\* how an invocation of the operation can end: it returns, or raises
\* redis.ConnectionError, redis.TimeoutError, or some other exception
InvocationOutcomes == {"returns", "ConnectionError", "TimeoutError", "OtherError"}

\* mutant: every exception is caught
Retryable_Any(kind) == kind # "returns"

\* line 160: except (redis.ConnectionError, redis.TimeoutError)
Retryable(kind) == kind \in {"ConnectionError", "TimeoutError"}

RECURSIVE Pow2(_)
Pow2(n) == IF n = 0 THEN 1 ELSE 2 * Pow2(n - 1)

RetryInit ==
    /\ ServiceInit /\ StorageIdle /\ WritesIdle /\ HistoryIdle /\ ToolsIdle /\ AgentIdle
    /\ started = <<>>
    /\ raw_log = <<>>
    /\ read_limit = 0
    /\ read_status = "none"
    /\ read_result = <<>>
    /\ llm_messages = <<>>
    /\ max_retries \in MaxRetriesInputs
    /\ retry_pc = "loop"
    /\ attempt = 0
    /\ retry_seen = <<>>
    /\ retry_slept = 0
    /\ retry_result = NoOutcome

\* range(self.max_retries) is empty: the loop body never runs (line 172)
LoopSkipped ==
    /\ retry_pc = "loop"
    /\ max_retries = 0
    /\ retry_pc' = "raised"
    /\ retry_result' = [kind |-> "StateServiceException", invocation |-> 0]
    /\ UNCHANGED <<max_retries, attempt, retry_seen, retry_slept, started, rvars, llm_messages,
                   hvars, tvars, avars, svars, stvars, wvars, log, now>>

\* lines 158-170: `await operation(*args, **kwargs)` ends as `kind`
Invoke(kind) ==
    /\ retry_pc = "loop"
    /\ attempt < max_retries
    /\ retry_seen' = Append(retry_seen, kind)
    /\ IF kind = "returns"
       THEN /\ retry_pc' = "returned"
            /\ retry_result' = [kind |-> "value", invocation |-> attempt + 1]
       ELSE IF Retryable(kind)
       THEN IF attempt < max_retries - 1
            THEN /\ retry_pc' = "sleeping"
                 /\ retry_result' = retry_result
            ELSE /\ retry_pc' = "raised"
                 /\ retry_result' = [kind |-> "StateServiceException", invocation |-> attempt + 1]
       ELSE /\ retry_pc' = "raised"
            /\ retry_result' = [kind |-> kind, invocation |-> attempt + 1]
    /\ UNCHANGED <<max_retries, attempt, retry_slept, started, rvars, llm_messages,
                   hvars, tvars, avars, svars, stvars, wvars, log, now>>

\* line 168: asyncio.sleep(self.retry_delay * (2 ** attempt)), then the next
\* round of the loop
Backoff ==
    /\ retry_pc = "sleeping"
    /\ retry_slept' = retry_slept + Pow2(attempt)
    /\ attempt' = attempt + 1
    /\ retry_pc' = "loop"
    /\ UNCHANGED <<max_retries, retry_seen, retry_result, started, rvars, llm_messages,
                   hvars, tvars, avars, svars, stvars, wvars, log, now>>

RetryNext ==
    \/ LoopSkipped
    \/ \E kind \in InvocationOutcomes : Invoke(kind)
    \/ Backoff

RetrySpec == RetryInit /\ [][RetryNext]_vars

\* the invocations before the last one all raised a connection or timeout error
EarlierWereTransient ==
    \A i \in 1..(Len(retry_seen) - 1) : retry_seen[i] \in {"ConnectionError", "TimeoutError"}

\* C34: _execute_with_retry invokes the operation at most max_retries times.
\* It returns the value of the first invocation that returns; it invokes
\* again only after a connection or timeout error; it raises
\* StateServiceException when max_retries invocations in a row ended in such
\* an error; any other error ends the call at once and is raised as it is.
C34_AtMostMaxRetriesAttempts ==
    /\ Len(retry_seen) <= max_retries
    /\ EarlierWereTransient
    /\ retry_pc = "returned"
          => /\ retry_seen[Len(retry_seen)] = "returns"
             /\ retry_result = [kind |-> "value", invocation |-> Len(retry_seen)]
    /\ (retry_pc = "raised" /\ retry_result.kind = "StateServiceException")
          => /\ Len(retry_seen) = max_retries
             /\ \A i \in 1..Len(retry_seen) : retry_seen[i] \in {"ConnectionError", "TimeoutError"}
    /\ (retry_pc = "raised" /\ retry_result.kind # "StateServiceException")
          => /\ retry_seen[Len(retry_seen)] = "OtherError"
             /\ retry_result = [kind |-> "OtherError", invocation |-> Len(retry_seen)]
    /\ retry_pc \in {"loop", "sleeping"}
          => \A i \in 1..Len(retry_seen) : retry_seen[i] \in {"ConnectionError", "TimeoutError"}

\* with the default max_retries of 3, two transient errors were followed by
\* an invocation that returned
C34_Witness ==
    /\ max_retries = 3
    /\ retry_pc = "returned"
    /\ retry_seen = <<"ConnectionError", "TimeoutError", "returns">>
    /\ retry_slept = 3

\* C35: after any sequence of add_chat_message calls, atomic_turn_operation
\* add_message operations and trim_history calls, no two entries of the
\* message log carry the same message_id; stated for the runs in which no
\* lock lease has expired under its holder.
C35_ExactlyOnceAllPaths ==
    ~lease_expired_inside
       => \A mid \in {log[i].message_id : i \in 1..Len(log)} :
             Cardinality(EntriesWithId(mid)) = 1

\* C36: an add_tool_result call whose storage append raises leaves the turn
\* index as it was: the id is not added to completed_tool_results and
\* is_complete is not set; the message log is unchanged and the chat's
\* in-process lock is free again when the call has ended.
C36_RaisedToolResultLeavesMetadata ==
    [][\A t \in TurnIds, c \in ToolIds :
          (AddToolResult(t, c, FALSE) /\ ret'.result = "raise")
             => /\ active' = active
                /\ log' = log
                /\ turn_lock' = "free"]_vars

\* an add_tool_result call for an expected id has raised: the id is not among
\* the completed results, the turn is open and the lock is free
C36_Witness ==
    /\ ret.op = "add_tool_result"
    /\ ret.result = "raise"
    /\ ret.turn \in DOMAIN active
    /\ InList(ret.id, active[ret.turn].tool_call_ids)
    /\ ~InList(ret.id, active[ret.turn].completed_tool_results)
    /\ ~active[ret.turn].is_complete
    /\ turn_lock = "free"

\* C37: an add_assistant_message call whose storage append raises leaves the
\* turn's metadata as it was before the call: assistant_message_id,
\* tool_call_ids and is_complete are unchanged.
C37_RaisedAssistantLeavesMetadata ==
    [][\A t \in TurnIds, tcs \in ToolCallLists :
          (AddAssistantMessage(t, tcs, FALSE) /\ ret'.result = "raise")
             => /\ active'[t].assistant_message_id = active[t].assistant_message_id
                /\ active'[t].tool_call_ids = active[t].tool_call_ids
                /\ active'[t].is_complete = active[t].is_complete]_vars

(***************************************************************************)
(* Concurrent update_chat_state calls on one chat, each caller patching a  *)
(* key of its own.                                                         *)
(***************************************************************************)
\* the key of the state_update dict caller p passes
PatchOf(p) == IF p = 1 THEN "user_preferences" ELSE "conversation_context"

\* versions of the state document these calls start from
MaxUpdates == 3

\* update_chat_state(chat_id, {PatchOf(p): ...}) called by p
CallUpdate(p) ==
    /\ state_doc.version < MaxUpdates
    /\ EntersUpdate(p, PatchOf(p))

\* the documents earlier update_chat_state calls can have left under the key
UpdatedDocs ==
    {NoDoc} \cup [version : 1..(MaxUpdates - 1), keys : SUBSET PatchKeys]

UpdatesInit ==
    /\ ServiceInit /\ StorageIdle /\ HistoryIdle /\ ToolsIdle /\ AgentIdle /\ TurnsIdle
    /\ tool_log = <<>>
    /\ state_doc \in UpdatedDocs
    /\ via = [p \in Callers |-> "none"]
    /\ params = [p \in Callers |-> NoParams]
    /\ cur_state = [p \in Callers |-> NoDoc]
    /\ landed = {}
    /\ log_cut = FALSE

UpdatesNext ==
    \/ \E p \in Callers : CallUpdate(p)
    \/ \E p \in Callers, o \in 1..2 : GetState(p, StorageOutcomes[o])
    \/ \E p \in Callers, o \in 1..2 : CreateState(p, StorageOutcomes[o])
    \/ \E p \in Callers, o \in 1..2 : SetState(p, StorageOutcomes[o])

UpdatesSpec == UpdatesInit /\ [][UpdatesNext]_vars

\* C38: when update_chat_state calls of two callers with patches on disjoint
\* keys have both returned, the stored state document holds both patches.
C38_NoLostUpdate ==
    (\A p \in Callers : pc[p] = "idle" /\ outcome[p] = "added")
       => \A p \in Callers : PatchOf(p) \in state_doc.keys

(***************************************************************************)
(* BaseAgent.complete up to its first request (lines 197-236), for a chat  *)
(* whose log holds earlier turns.  save_to_history is true and the state   *)
(* service is present.                                                     *)
(***************************************************************************)
\* earlier turns in the log when complete is called
MaxPriorTurns == 2

\* the turns a chat has been through: answered, answered after a tool call,
\* left without a reply, left with a tool call outstanding
PriorTurns == {<<"U", "A">>, <<"U", "A1", "T1", "A">>, <<"U">>, <<"U", "A1">>}

\* the log entries of a list of turns, written before the current message
PriorEntries(shapes) ==
    [i \in 1..Len(shapes) |->
        [ShapeMessage(shapes[i], i) EXCEPT !.message_id = 100 + i,
                                           !.turn_id = 0,
                                           !.content = "earlier"]]

PriorLogs ==
    UNION {{PriorEntries(Flattened(f)) : f \in [1..n -> PriorTurns]} : n \in 0..MaxPriorTurns}

\* lines 226-230: the keys of a history message that are passed on
Cleaned(msg) ==
    [role |-> msg.role, content |-> msg.content,
     tool_calls |-> msg.tool_calls, tool_call_id |-> msg.tool_call_id]

\* line 233: {"role": "user", "content": message}
CurrentUserMessage ==
    [role |-> "user", content |-> "text", tool_calls |-> <<>>, tool_call_id |-> NoTool]

\* _prepare_messages_with_system_prompt (lines 153-172)
PrepareMessagesWithSystemPrompt(conversation, system_prompt) ==
    LET NotSystem(m) == m.role # "system"
        head == IF system_prompt
                THEN <<[role |-> "system", content |-> "system_prompt",
                        tool_calls |-> <<>>, tool_call_id |-> NoTool]>>
                ELSE <<>>
    IN  head \o SelectSeq(conversation, NotSystem)

\* lines 218-233: the cleaned history, then the current user message
ConversationMessages(history) ==
    Append([i \in 1..Len(history) |-> Cleaned(history[i])], CurrentUserMessage)

\* the chat has a history when complete is called
PromptInit ==
    /\ StorageIdle /\ WritesIdle /\ ToolsIdle /\ AgentIdle
    /\ active = <<>>
    /\ now = 0
    /\ log \in PriorLogs
    /\ nextTurn = 1
    /\ nextMsg = 1
    /\ turn_lock = "free"
    /\ cl_pc = "idle"
    /\ cl_to_remove = <<>>
    /\ ret = [op |-> "none", turn |-> NoId, id |-> NoTool, result |-> "none"]
    /\ hist = <<>>
    /\ started = <<>>
    /\ raw_log = <<>>
    /\ read_limit = 0
    /\ read_status = "none"
    /\ read_result = <<>>
    /\ RetryIdle
    /\ llm_messages = <<>>
    /\ messages = <<>>
    /\ k_turns \in KInputs \cup {NoK}
    /\ repaired = <<>>
    /\ repaired_again = <<>>
    /\ window = <<>>
    /\ passes_run = {}
    /\ h_limit = 0
    /\ view = <<>>

\* lines 216-236 and 363-370: get_chat_history(chat_id, k_turns=k_turns)
\* returns and the request is built, or it raises into the outer handler.
\* No turn is older than the cleanup age when the history is read.
PrepareMessages(system_prompt, ok) ==
    /\ a_pc = "history"
    /\ IF ok
       THEN /\ view' = GetChatHistoryWithToolCalls(log, 0, k_turns)
            /\ llm_messages' =
                  PrepareMessagesWithSystemPrompt(ConversationMessages(view'), system_prompt)
            /\ a_pc' = "llm"
            /\ UNCHANGED <<a_outcome, active>>
       ELSE /\ Terminates("raise")
            /\ active' = ForceCompleted(active, a_turn)
            /\ UNCHANGED <<view, llm_messages>>
    /\ UNCHANGED <<a_turn, a_registered, a_iteration, a_max, t_bad, t_audit, t_fed,
                   messages, k_turns, repaired, repaired_again, window, passes_run, h_limit,
                   started, rvars, xvars, tvars, stvars, wvars, log, now,
                   nextTurn, nextMsg, turn_lock, cl_pc, cl_to_remove, ret, hist>>

PromptNext ==
    \/ \E o \in 1..2 : Complete(MaxIterations, StorageOutcomes[o])
    \/ \E system_prompt \in BOOLEAN, o \in 1..2 : PrepareMessages(system_prompt, StorageOutcomes[o])

PromptSpec == PromptInit /\ [][PromptNext]_vars

\* C39: the message list of the first request holds the current user
\* message exactly once, whether or not start_turn stored it before the
\* history was read.
C39_CurrentMessageOnce ==
    a_pc = "llm"
       => Cardinality({i \in 1..Len(llm_messages) : llm_messages[i] = CurrentUserMessage}) = 1

====
